---- MODULE Spec2Model ----
(* uacpi-rs: the binding layer between the uACPI engine and a host kernel. *)
(* The model covers the status / init-level / work-type conversions, the    *)
(* kernel-api registry with its C-callable trampolines, the Object wrapper   *)
(* over the engine's reference-counted objects, and the init lifecycle.      *)
EXTENDS Integers, Sequences, FiniteSets, TLC

(* ---------------------------------------------------------------- *)
(* Numeric status codes of the engine (the uacpi_sys status values). *)
(* ---------------------------------------------------------------- *)
UACPI_STATUS_OK == 0
UACPI_STATUS_MAPPING_FAILED == 1
UACPI_STATUS_OUT_OF_MEMORY == 2
UACPI_STATUS_BAD_CHECKSUM == 3
UACPI_STATUS_INVALID_SIGNATURE == 4
UACPI_STATUS_INVALID_TABLE_LENGTH == 5
UACPI_STATUS_NOT_FOUND == 6
UACPI_STATUS_INVALID_ARGUMENT == 7
UACPI_STATUS_UNIMPLEMENTED == 8
UACPI_STATUS_ALREADY_EXISTS == 9
UACPI_STATUS_INTERNAL_ERROR == 10
UACPI_STATUS_TYPE_MISMATCH == 11
UACPI_STATUS_INIT_LEVEL_MISMATCH == 12
UACPI_STATUS_NAMESPACE_NODE_DANGLING == 13
UACPI_STATUS_NO_HANDLER == 14
UACPI_STATUS_NO_RESOURCE_END_TAG == 15
UACPI_STATUS_COMPILED_OUT == 16
UACPI_STATUS_HARDWARE_TIMEOUT == 17
UACPI_STATUS_AML_UNDEFINED_REFERENCE == 251592704
UACPI_STATUS_AML_INVALID_NAMESTRING == 251592705
UACPI_STATUS_AML_OBJECT_ALREADY_EXISTS == 251592706
UACPI_STATUS_AML_INVALID_OPCODE == 251592707
UACPI_STATUS_AML_INCOMPATIBLE_OBJECT_TYPE == 251592708
UACPI_STATUS_AML_BAD_ENCODING == 251592709
UACPI_STATUS_AML_OUT_OF_BOUNDS_INDEX == 251592710
UACPI_STATUS_AML_SYNC_LEVEL_TOO_HIGH == 251592711
UACPI_STATUS_AML_INVALID_RESOURCE == 251592712
UACPI_STATUS_AML_LOOP_TIMEOUT == 251592713

\* Every numeric status value the engine defines.
EngineStatusCodes ==
    { UACPI_STATUS_OK,
      UACPI_STATUS_MAPPING_FAILED,
      UACPI_STATUS_OUT_OF_MEMORY,
      UACPI_STATUS_BAD_CHECKSUM,
      UACPI_STATUS_INVALID_SIGNATURE,
      UACPI_STATUS_INVALID_TABLE_LENGTH,
      UACPI_STATUS_NOT_FOUND,
      UACPI_STATUS_INVALID_ARGUMENT,
      UACPI_STATUS_UNIMPLEMENTED,
      UACPI_STATUS_ALREADY_EXISTS,
      UACPI_STATUS_INTERNAL_ERROR,
      UACPI_STATUS_TYPE_MISMATCH,
      UACPI_STATUS_INIT_LEVEL_MISMATCH,
      UACPI_STATUS_NAMESPACE_NODE_DANGLING,
      UACPI_STATUS_NO_HANDLER,
      UACPI_STATUS_NO_RESOURCE_END_TAG,
      UACPI_STATUS_COMPILED_OUT,
      UACPI_STATUS_HARDWARE_TIMEOUT,
      UACPI_STATUS_AML_UNDEFINED_REFERENCE,
      UACPI_STATUS_AML_INVALID_NAMESTRING,
      UACPI_STATUS_AML_OBJECT_ALREADY_EXISTS,
      UACPI_STATUS_AML_INVALID_OPCODE,
      UACPI_STATUS_AML_INCOMPATIBLE_OBJECT_TYPE,
      UACPI_STATUS_AML_BAD_ENCODING,
      UACPI_STATUS_AML_OUT_OF_BOUNDS_INDEX,
      UACPI_STATUS_AML_SYNC_LEVEL_TOO_HIGH,
      UACPI_STATUS_AML_INVALID_RESOURCE,
      UACPI_STATUS_AML_LOOP_TIMEOUT }

\* The outcome of a Rust panic: the value a diverging conversion yields.
Panic == "PANIC"

\* enum Status: the variants, by name.
Status ==
    { "Ok",
      "MappingFailed",
      "OutOfMemory",
      "BadChecksum",
      "InvalidSignature",
      "InvalidTableLenght",
      "NotFound",
      "InvalidArgument",
      "Unimplemented",
      "AlreadyExists",
      "InternalError",
      "TypeMismatch",
      "InitLevelMismatch",
      "NamespaceNodeDangling",
      "NoHandler",
      "NoResourceEndTag",
      "CompiledOut",
      "HardwareTimeout",
      "AmlUndefinedReference",
      "AmlInvalidNamestring",
      "AmlObjectAlreadyExists",
      "AmlInvalidOpcode",
      "AmlIncompatibleObjectType",
      "AmlBadEncoding",
      "AmlOutOfBoundsIndex",
      "AmlSyncLevelTooHigh",
      "AmlInvalidResource",
      "AmlLoopTimeout" }

\* A conversion whose fall-through arm yields a status instead of panicking.
StatusFromCoerce(status) ==
    CASE status = UACPI_STATUS_OK -> "Ok"
      [] status = UACPI_STATUS_MAPPING_FAILED -> "MappingFailed"
      [] status = UACPI_STATUS_OUT_OF_MEMORY -> "OutOfMemory"
      [] status = UACPI_STATUS_BAD_CHECKSUM -> "BadChecksum"
      [] status = UACPI_STATUS_INVALID_SIGNATURE -> "InvalidSignature"
      [] status = UACPI_STATUS_INVALID_TABLE_LENGTH -> "InvalidTableLenght"
      [] status = UACPI_STATUS_NOT_FOUND -> "NotFound"
      [] status = UACPI_STATUS_INVALID_ARGUMENT -> "InvalidArgument"
      [] status = UACPI_STATUS_UNIMPLEMENTED -> "Unimplemented"
      [] status = UACPI_STATUS_ALREADY_EXISTS -> "AlreadyExists"
      [] status = UACPI_STATUS_INTERNAL_ERROR -> "InternalError"
      [] status = UACPI_STATUS_TYPE_MISMATCH -> "TypeMismatch"
      [] status = UACPI_STATUS_INIT_LEVEL_MISMATCH -> "InitLevelMismatch"
      [] status = UACPI_STATUS_NAMESPACE_NODE_DANGLING -> "NamespaceNodeDangling"
      [] status = UACPI_STATUS_NO_HANDLER -> "NoHandler"
      [] status = UACPI_STATUS_NO_RESOURCE_END_TAG -> "NoResourceEndTag"
      [] status = UACPI_STATUS_COMPILED_OUT -> "CompiledOut"
      [] status = UACPI_STATUS_HARDWARE_TIMEOUT -> "HardwareTimeout"
      [] status = UACPI_STATUS_AML_UNDEFINED_REFERENCE -> "AmlUndefinedReference"
      [] status = UACPI_STATUS_AML_INVALID_NAMESTRING -> "AmlInvalidNamestring"
      [] status = UACPI_STATUS_AML_OBJECT_ALREADY_EXISTS -> "AmlObjectAlreadyExists"
      [] status = UACPI_STATUS_AML_INVALID_OPCODE -> "AmlInvalidOpcode"
      [] status = UACPI_STATUS_AML_INCOMPATIBLE_OBJECT_TYPE -> "AmlIncompatibleObjectType"
      [] status = UACPI_STATUS_AML_BAD_ENCODING -> "AmlBadEncoding"
      [] status = UACPI_STATUS_AML_OUT_OF_BOUNDS_INDEX -> "AmlOutOfBoundsIndex"
      [] status = UACPI_STATUS_AML_SYNC_LEVEL_TOO_HIGH -> "AmlSyncLevelTooHigh"
      [] status = UACPI_STATUS_AML_INVALID_RESOURCE -> "AmlInvalidResource"
      [] status = UACPI_STATUS_AML_LOOP_TIMEOUT -> "AmlLoopTimeout"
      [] OTHER -> "InternalError"

\* A conversion that maps one defined code to its neighbour's variant and a
\* second defined code to Ok.
StatusFromSwapped(status) ==
    CASE status = UACPI_STATUS_OK -> "Ok"
      [] status = UACPI_STATUS_MAPPING_FAILED -> "MappingFailed"
      [] status = UACPI_STATUS_OUT_OF_MEMORY -> "OutOfMemory"
      [] status = UACPI_STATUS_BAD_CHECKSUM -> "BadChecksum"
      [] status = UACPI_STATUS_INVALID_SIGNATURE -> "InvalidSignature"
      [] status = UACPI_STATUS_INVALID_TABLE_LENGTH -> "NotFound"
      [] status = UACPI_STATUS_NOT_FOUND -> "NotFound"
      [] status = UACPI_STATUS_INVALID_ARGUMENT -> "InvalidArgument"
      [] status = UACPI_STATUS_UNIMPLEMENTED -> "Unimplemented"
      [] status = UACPI_STATUS_ALREADY_EXISTS -> "AlreadyExists"
      [] status = UACPI_STATUS_INTERNAL_ERROR -> "InternalError"
      [] status = UACPI_STATUS_TYPE_MISMATCH -> "TypeMismatch"
      [] status = UACPI_STATUS_INIT_LEVEL_MISMATCH -> "InitLevelMismatch"
      [] status = UACPI_STATUS_NAMESPACE_NODE_DANGLING -> "NamespaceNodeDangling"
      [] status = UACPI_STATUS_NO_HANDLER -> "NoHandler"
      [] status = UACPI_STATUS_NO_RESOURCE_END_TAG -> "NoResourceEndTag"
      [] status = UACPI_STATUS_COMPILED_OUT -> "CompiledOut"
      [] status = UACPI_STATUS_HARDWARE_TIMEOUT -> "HardwareTimeout"
      [] status = UACPI_STATUS_AML_UNDEFINED_REFERENCE -> "AmlUndefinedReference"
      [] status = UACPI_STATUS_AML_INVALID_NAMESTRING -> "AmlInvalidNamestring"
      [] status = UACPI_STATUS_AML_OBJECT_ALREADY_EXISTS -> "AmlObjectAlreadyExists"
      [] status = UACPI_STATUS_AML_INVALID_OPCODE -> "AmlInvalidOpcode"
      [] status = UACPI_STATUS_AML_INCOMPATIBLE_OBJECT_TYPE -> "AmlIncompatibleObjectType"
      [] status = UACPI_STATUS_AML_BAD_ENCODING -> "AmlBadEncoding"
      [] status = UACPI_STATUS_AML_OUT_OF_BOUNDS_INDEX -> "AmlOutOfBoundsIndex"
      [] status = UACPI_STATUS_AML_SYNC_LEVEL_TOO_HIGH -> "AmlSyncLevelTooHigh"
      [] status = UACPI_STATUS_AML_INVALID_RESOURCE -> "AmlInvalidResource"
      [] status = UACPI_STATUS_AML_LOOP_TIMEOUT -> "Ok"
      [] OTHER -> Panic

\* impl From<uacpi_status> for Status: one arm per defined code, panic otherwise.
StatusFrom(status) ==
    CASE status = UACPI_STATUS_OK -> "Ok"
      [] status = UACPI_STATUS_MAPPING_FAILED -> "MappingFailed"
      [] status = UACPI_STATUS_OUT_OF_MEMORY -> "OutOfMemory"
      [] status = UACPI_STATUS_BAD_CHECKSUM -> "BadChecksum"
      [] status = UACPI_STATUS_INVALID_SIGNATURE -> "InvalidSignature"
      [] status = UACPI_STATUS_INVALID_TABLE_LENGTH -> "InvalidTableLenght"
      [] status = UACPI_STATUS_NOT_FOUND -> "NotFound"
      [] status = UACPI_STATUS_INVALID_ARGUMENT -> "InvalidArgument"
      [] status = UACPI_STATUS_UNIMPLEMENTED -> "Unimplemented"
      [] status = UACPI_STATUS_ALREADY_EXISTS -> "AlreadyExists"
      [] status = UACPI_STATUS_INTERNAL_ERROR -> "InternalError"
      [] status = UACPI_STATUS_TYPE_MISMATCH -> "TypeMismatch"
      [] status = UACPI_STATUS_INIT_LEVEL_MISMATCH -> "InitLevelMismatch"
      [] status = UACPI_STATUS_NAMESPACE_NODE_DANGLING -> "NamespaceNodeDangling"
      [] status = UACPI_STATUS_NO_HANDLER -> "NoHandler"
      [] status = UACPI_STATUS_NO_RESOURCE_END_TAG -> "NoResourceEndTag"
      [] status = UACPI_STATUS_COMPILED_OUT -> "CompiledOut"
      [] status = UACPI_STATUS_HARDWARE_TIMEOUT -> "HardwareTimeout"
      [] status = UACPI_STATUS_AML_UNDEFINED_REFERENCE -> "AmlUndefinedReference"
      [] status = UACPI_STATUS_AML_INVALID_NAMESTRING -> "AmlInvalidNamestring"
      [] status = UACPI_STATUS_AML_OBJECT_ALREADY_EXISTS -> "AmlObjectAlreadyExists"
      [] status = UACPI_STATUS_AML_INVALID_OPCODE -> "AmlInvalidOpcode"
      [] status = UACPI_STATUS_AML_INCOMPATIBLE_OBJECT_TYPE -> "AmlIncompatibleObjectType"
      [] status = UACPI_STATUS_AML_BAD_ENCODING -> "AmlBadEncoding"
      [] status = UACPI_STATUS_AML_OUT_OF_BOUNDS_INDEX -> "AmlOutOfBoundsIndex"
      [] status = UACPI_STATUS_AML_SYNC_LEVEL_TOO_HIGH -> "AmlSyncLevelTooHigh"
      [] status = UACPI_STATUS_AML_INVALID_RESOURCE -> "AmlInvalidResource"
      [] status = UACPI_STATUS_AML_LOOP_TIMEOUT -> "AmlLoopTimeout"
      [] OTHER -> Panic

\* Status as u32: the #[repr(u32)] discriminant of each variant.
StatusAsU32(s) ==
    CASE s = "Ok" -> UACPI_STATUS_OK
      [] s = "MappingFailed" -> UACPI_STATUS_MAPPING_FAILED
      [] s = "OutOfMemory" -> UACPI_STATUS_OUT_OF_MEMORY
      [] s = "BadChecksum" -> UACPI_STATUS_BAD_CHECKSUM
      [] s = "InvalidSignature" -> UACPI_STATUS_INVALID_SIGNATURE
      [] s = "InvalidTableLenght" -> UACPI_STATUS_INVALID_TABLE_LENGTH
      [] s = "NotFound" -> UACPI_STATUS_NOT_FOUND
      [] s = "InvalidArgument" -> UACPI_STATUS_INVALID_ARGUMENT
      [] s = "Unimplemented" -> UACPI_STATUS_UNIMPLEMENTED
      [] s = "AlreadyExists" -> UACPI_STATUS_ALREADY_EXISTS
      [] s = "InternalError" -> UACPI_STATUS_INTERNAL_ERROR
      [] s = "TypeMismatch" -> UACPI_STATUS_TYPE_MISMATCH
      [] s = "InitLevelMismatch" -> UACPI_STATUS_INIT_LEVEL_MISMATCH
      [] s = "NamespaceNodeDangling" -> UACPI_STATUS_NAMESPACE_NODE_DANGLING
      [] s = "NoHandler" -> UACPI_STATUS_NO_HANDLER
      [] s = "NoResourceEndTag" -> UACPI_STATUS_NO_RESOURCE_END_TAG
      [] s = "CompiledOut" -> UACPI_STATUS_COMPILED_OUT
      [] s = "HardwareTimeout" -> UACPI_STATUS_HARDWARE_TIMEOUT
      [] s = "AmlUndefinedReference" -> UACPI_STATUS_AML_UNDEFINED_REFERENCE
      [] s = "AmlInvalidNamestring" -> UACPI_STATUS_AML_INVALID_NAMESTRING
      [] s = "AmlObjectAlreadyExists" -> UACPI_STATUS_AML_OBJECT_ALREADY_EXISTS
      [] s = "AmlInvalidOpcode" -> UACPI_STATUS_AML_INVALID_OPCODE
      [] s = "AmlIncompatibleObjectType" -> UACPI_STATUS_AML_INCOMPATIBLE_OBJECT_TYPE
      [] s = "AmlBadEncoding" -> UACPI_STATUS_AML_BAD_ENCODING
      [] s = "AmlOutOfBoundsIndex" -> UACPI_STATUS_AML_OUT_OF_BOUNDS_INDEX
      [] s = "AmlSyncLevelTooHigh" -> UACPI_STATUS_AML_SYNC_LEVEL_TOO_HIGH
      [] s = "AmlInvalidResource" -> UACPI_STATUS_AML_INVALID_RESOURCE
      [] s = "AmlLoopTimeout" -> UACPI_STATUS_AML_LOOP_TIMEOUT

(* ---------------------------------------------------------------- *)
(* Init levels and work types.                                       *)
(* ---------------------------------------------------------------- *)
UACPI_INIT_LEVEL_EARLY == 0
UACPI_INIT_LEVEL_SUBSYSTEM_INITIALIZED == 1
UACPI_INIT_LEVEL_NAMESPACE_LOADED == 2
UACPI_INIT_LEVEL_NAMESPACE_INITIALIZED == 3

UACPI_WORK_GPE_EXECUTION == 0
UACPI_WORK_NOTIFICATION == 1

\* A conversion with the arms of two adjacent levels exchanged.
InitLevelFromSwapped(level) ==
    CASE level = UACPI_INIT_LEVEL_EARLY -> "Early"
      [] level = UACPI_INIT_LEVEL_SUBSYSTEM_INITIALIZED -> "NamespaceLoaded"
      [] level = UACPI_INIT_LEVEL_NAMESPACE_LOADED -> "SubsystemInitialized"
      [] level = UACPI_INIT_LEVEL_NAMESPACE_INITIALIZED -> "NamespaceInitialized"
      [] OTHER -> Panic

\* impl From<uacpi_init_level> for InitLevel.
InitLevelFrom(level) ==
    CASE level = UACPI_INIT_LEVEL_EARLY -> "Early"
      [] level = UACPI_INIT_LEVEL_SUBSYSTEM_INITIALIZED -> "SubsystemInitialized"
      [] level = UACPI_INIT_LEVEL_NAMESPACE_LOADED -> "NamespaceLoaded"
      [] level = UACPI_INIT_LEVEL_NAMESPACE_INITIALIZED -> "NamespaceInitialized"
      [] OTHER -> Panic

\* impl From<uacpi_work_type> for WorkType.
WorkTypeFrom(value) ==
    CASE value = UACPI_WORK_GPE_EXECUTION -> "GPEExecution"
      [] value = UACPI_WORK_NOTIFICATION -> "Notification"
      [] OTHER -> Panic

(* ---------------------------------------------------------------- *)
(* Bounds and input sets.                                            *)
(* ---------------------------------------------------------------- *)
\* Numeric inputs of the conversions: 0..MaxRaw and the same span around the
\* first code of the AML family.
MaxRaw == 20
RawInputs ==
    (0 .. MaxRaw) \cup
    ((UACPI_STATUS_AML_UNDEFINED_REFERENCE - 1) ..
        (UACPI_STATUS_AML_UNDEFINED_REFERENCE + MaxRaw))

\* Values a capability call can produce (u64 data, handles): 0..MaxVal.
MaxVal == 1
CapValues == 0 .. MaxVal

\* Number of set_kernel_api calls a run makes at most.
MaxSetCalls == 2

\* Width of usize in the model; isize is the signed type of the same width.
UsizeBits == 6
USIZE_MAX == 2 ^ UsizeBits - 1
ISIZE_MAX == 2 ^ (UsizeBits - 1) - 1

None == "None"
NullPtr == 0

\* The capability objects a host can register (Arc<dyn KernelApi>).
Apis == {"apiA", "apiB"}
\* Output locations the engine hands to a trampoline.
Ptrs == {"p1", "p2"}
\* Statuses a capability implementation returns in Err (Ok included: the type
\* Result<_, Status> allows it).
CapErrors == {"Ok", "MappingFailed", "InternalError"}
\* Sizes the engine asks to allocate or free.
SizeInputs == {0, 1, 8, ISIZE_MAX - 7, ISIZE_MAX - 6, USIZE_MAX}
\* Log strings the engine passes (bytes before the terminating NUL).
LogStrings == {<<>>, <<65>>, <<195, 169>>, <<195>>, <<65, 255>>, <<226, 130, 172>>}
\* Tags of a raw firmware request.
UACPI_FIRMWARE_REQUEST_TYPE_BREAKPOINT == 0
UACPI_FIRMWARE_REQUEST_TYPE_FATAL == 1
RequestTags == {UACPI_FIRMWARE_REQUEST_TYPE_BREAKPOINT,
                UACPI_FIRMWARE_REQUEST_TYPE_FATAL, 2}

VARIABLES
    conv_kind,       \* which conversion a run exercises
    conv_raw,        \* its numeric input
    conv_typed,      \* the typed value it produced (or Panic)
    conv_back,       \* Status as u32 of the typed value
    conv_pc,         \* "start", "converted", "back", "aborted"
    KERNEL_API,      \* static mut KERNEL_API: None or the registered capability
    process,         \* "running", "aborted" (panic), "unwound" (panic crossed into C)
    overflow_checks, \* whether the build panics on integer overflow
    mem,             \* the engine's output locations
    ret,             \* the return slot of the last trampoline that returned
    lastCall,        \* the last trampoline call: what it was given and did
    setCalls,        \* number of set_kernel_api calls so far
    firstApi,        \* the capability the first set_kernel_api registered
    heap,            \* the engine's objects: state, type tag, payload, refcount
    owned,           \* per object: live wrappers made by new_int / eval
    borrowed,        \* per object: live wrappers yielded by a package iterator
    iter,            \* the package iterator in use, if any
    snap,            \* refcounts when the iterator was made, and whether only
                     \* the iterator and its items have acted since
    yielded,         \* the objects the iterator has yielded, in order
    acquired,        \* per object: references wrappers acquired on it
    unrefs,          \* per object: uacpi_object_unref calls made by dropped wrappers
    newIntArg,       \* per object made by new_int: the value it was given
    lastAccess,      \* the last accessor call and what it returned
    heapUB,          \* an object was used after the engine released it
    init_level,      \* the engine's current init level (numeric)
    lastLife,        \* the last lifecycle call: level before it, what it returned
    lastOk,          \* the last lifecycle call that returned Ok
    observed,        \* what get_current_init_level returned, call by call
    lastInput,       \* the raw arguments the engine gave the last trampoline call
    irq_table,       \* the capability's installed interrupt handlers, by handle
    irq_view,        \* the engine's view: handlers it installed and did not uninstall
    irq_log,         \* the simulated interrupts: line, engine handlers invoked
    work_queue,      \* the capability's queue of deferred work
    work_ran,        \* the engine-handler calls made by work that has run
    work_view,       \* the engine's view: the work it scheduled (schedule returned Ok)
    wait_pc,         \* wait_for_work_completion: "idle", "waiting", "returned"
    lastWait,        \* queue, work run and work scheduled when the wait returned
    mutex_held,      \* the capability's mutex: held or free
    event_counter,   \* the capability's event: its counter
    sync_pc,         \* the acquire or wait that is blocked in the capability, if any
    lastSync,        \* the last acquire or wait that returned
    alloc_blocks,    \* the global allocator's blocks: live or not, size, contents
    lastAlloc,       \* the last allocation: what was asked, what came back
    pci_space,       \* the capability's PCI configuration space, byte by byte
    pci_ops,         \* number of PCI accesses made
    lastPci,         \* the last PCI access: its arguments, the space before it
    handle_target,   \* the target the crate is built for: "x86_64" or "x86"
    handle_kind,     \* how the Handle of a run is made: "new" or "invalid"
    handle_in,       \* the u64 given to Handle::new
    handle_obj,      \* the Handle made
    handle_out,      \* what as_u64 returned
    handle_pc,       \* "start", "made", "read", "aborted"
    lastLibc,        \* the libc shim call of a run: its arguments, what it did
    lastWrap,        \* the last typed wrapper call: what the engine did, what it returned
    find_mem,        \* what the words of memory the callback reads hold
    find_fn,         \* "none", "find_devices", "find_devices_at"
    find_pc,         \* "idle", "walking", "returned"
    find_next,       \* the node the engine visits next (0: none left)
    find_log,        \* the visitor's calls of this traversal, in order
    find_res,        \* what the wrapper returned
    pnp_fn,          \* "none", "device_matches_pnp_id", "find_devices_at"
    pnp_list,        \* the caller's identifiers (list / hids)
    pnp_vec,         \* the Vec of pointers the wrapper built
    pnp_live,        \* whether that Vec's buffer is allocated
    pnp_pc,          \* "idle", "built", "in_engine", "returned"
    pnp_seen,        \* what the engine found behind the pointer it was given
    reg_write,       \* the capability a set_kernel_api in progress is storing (None: no set in progress)
    conc_pc,         \* for each call path: "idle" or "got"
    conc_got,        \* for each call path: what its last get_kernel_api gave it
    lastStr          \* the string shim call of a run: its arguments, what it read and returned

convVars == <<conv_kind, conv_raw, conv_typed, conv_back, conv_pc>>
regVars == <<KERNEL_API, process, overflow_checks, mem, ret, lastCall, setCalls, firstApi,
            lastInput>>
objVars == <<heap, owned, borrowed, iter, snap, yielded, acquired, unrefs, newIntArg,
             lastAccess, heapUB>>
lifeVars == <<init_level, lastLife, lastOk, observed>>
irqVars == <<irq_table, irq_view, irq_log>>
workVars == <<work_queue, work_ran, work_view, wait_pc, lastWait>>
syncVars == <<mutex_held, event_counter, sync_pc, lastSync>>
allocVars == <<alloc_blocks, lastAlloc>>
pciVars == <<pci_space, pci_ops, lastPci>>
handleVars == <<handle_target, handle_kind, handle_in, handle_obj, handle_out, handle_pc>>
libcVars == <<lastLibc>>
wrapVars == <<lastWrap>>
findVars == <<find_mem, find_fn, find_pc, find_next, find_log, find_res>>
pnpVars == <<pnp_fn, pnp_list, pnp_vec, pnp_live, pnp_pc, pnp_seen>>
concVars == <<reg_write, conc_pc, conc_got>>
strVars == <<lastStr>>
hostVars == <<irqVars, workVars, syncVars, allocVars, pciVars, handleVars, libcVars,
              wrapVars, findVars, pnpVars, concVars, strVars>>
\* the capability state an operation on one group leaves alone
notIrq == <<workVars, syncVars, allocVars, pciVars, handleVars, libcVars, wrapVars,
            findVars, pnpVars, concVars, strVars>>
notWork == <<irqVars, syncVars, allocVars, pciVars, handleVars, libcVars, wrapVars,
             findVars, pnpVars, concVars, strVars>>
notSync == <<irqVars, workVars, allocVars, pciVars, handleVars, libcVars, wrapVars,
             findVars, pnpVars, concVars, strVars>>
notAlloc == <<irqVars, workVars, syncVars, pciVars, handleVars, libcVars, wrapVars,
              findVars, pnpVars, concVars, strVars>>
notPci == <<irqVars, workVars, syncVars, allocVars, handleVars, libcVars, wrapVars,
            findVars, pnpVars, concVars, strVars>>
vars == <<convVars, regVars, objVars, lifeVars, hostVars>>

(* ---------------------------------------------------------------- *)
(* The conversions, applied to drawn inputs.                         *)
(* ---------------------------------------------------------------- *)
ConvIdle ==
    /\ conv_kind = "idle"
    /\ conv_raw = 0
    /\ conv_typed = None
    /\ conv_back = -1
    /\ conv_pc = "start"

ConvInit ==
    /\ conv_kind \in {"status", "init_level", "work_type"}
    /\ conv_raw \in RawInputs
    /\ conv_typed = None
    /\ conv_back = -1
    /\ conv_pc = "start"

ConvertStep(kind, typed) ==
    /\ conv_kind = kind
    /\ conv_pc = "start"
    /\ conv_typed' = typed
    /\ conv_pc' = IF typed = Panic THEN "aborted" ELSE "converted"
    /\ UNCHANGED <<conv_kind, conv_raw, conv_back, regVars, objVars, lifeVars, hostVars>>

\* let status: Status = raw.into();
ConvertStatus == ConvertStep("status", StatusFrom(conv_raw))

\* status as u32
StatusToNumeric ==
    /\ conv_kind = "status"
    /\ conv_pc = "converted"
    /\ conv_back' = StatusAsU32(conv_typed)
    /\ conv_pc' = "back"
    /\ UNCHANGED <<conv_kind, conv_raw, conv_typed, regVars, objVars, lifeVars, hostVars>>

\* let level: InitLevel = raw.into();
ConvertInitLevel == ConvertStep("init_level", InitLevelFrom(conv_raw))

\* let work: WorkType = raw.into();
ConvertWorkType == ConvertStep("work_type", WorkTypeFrom(conv_raw))

(* ---------------------------------------------------------------- *)
(* The registry.                                                     *)
(* ---------------------------------------------------------------- *)
\* No argument: a call that takes none, or one that never got to pass it.
NoArg == [none |-> TRUE]

NoCall ==
    [fn |-> "none", ptr |-> None, registry |-> None, asked |-> FALSE, dispatched |-> None,
     res |-> [tag |-> "NotCalled", val |-> 0, status |-> None],
     arg |-> NoArg, before |-> 0, assigned |-> FALSE, panicked |-> FALSE]

RegIdle ==
    /\ KERNEL_API = None
    /\ process = "running"
    /\ overflow_checks = FALSE
    /\ mem = [p \in Ptrs |-> 0]
    /\ ret = None
    /\ lastCall = NoCall
    /\ setCalls = 0
    /\ firstApi = None
    /\ lastInput = NoArg

\* The registry before any call, in a build with or without overflow checks.
RegBuild ==
    /\ KERNEL_API = None
    /\ process = "running"
    /\ overflow_checks \in BOOLEAN
    /\ mem = [p \in Ptrs |-> 0]
    /\ ret = None
    /\ lastCall = NoCall
    /\ setCalls = 0
    /\ firstApi = None
    /\ lastInput = NoArg

RegInit ==
    /\ KERNEL_API = None
    /\ process = "running"
    /\ overflow_checks \in BOOLEAN
    /\ mem \in [Ptrs -> CapValues]
    /\ ret = None
    /\ lastCall = NoCall
    /\ setCalls = 0
    /\ firstApi = None
    /\ lastInput = NoArg

\* pub fn set_kernel_api(api): KERNEL_API = Some(api), whatever it held.
set_kernel_api(api) ==
    /\ process = "running"
    /\ setCalls < MaxSetCalls
    /\ KERNEL_API' = api
    /\ setCalls' = setCalls + 1
    /\ firstApi' = IF setCalls = 0 THEN api ELSE firstApi
    /\ UNCHANGED <<process, overflow_checks, mem, ret, lastCall, lastInput, convVars, objVars,
                   lifeVars, hostVars>>

\* A registry read that hands out a default capability when none is set.
get_kernel_api_default == IF KERNEL_API = None THEN "apiA" ELSE KERNEL_API

\* fn get_kernel_api(): KERNEL_API.as_ref().expect("No kernel api set").clone()
get_kernel_api == IF KERNEL_API = None THEN Panic ELSE KERNEL_API

(* ---------------------------------------------------------------- *)
(* The trampolines.                                                  *)
(* ---------------------------------------------------------------- *)
\* What a capability call hands back: Ok(v), Err(status), or a panic inside it.
CapOk(v) == [tag |-> "Ok", val |-> v, status |-> None]
CapErr(s) == [tag |-> "Err", val |-> 0, status |-> s]
CapPanic == [tag |-> "Panic", val |-> 0, status |-> None]
NotCalled == [tag |-> "NotCalled", val |-> 0, status |-> None]

\* Result<u64, Status> / Result<Handle, Status>
CapResultsVal == {CapOk(v) : v \in CapValues} \cup {CapErr(s) : s \in CapErrors} \cup {CapPanic}
\* Result<(), Status>
CapResultsUnit == {CapOk(0)} \cup {CapErr(s) : s \in CapErrors} \cup {CapPanic}
\* a call that returns a plain value (a pointer, nothing)
CapReturnsPtr == {CapOk(p) : p \in {NullPtr, 1}} \cup {CapPanic}
CapReturnsUnit == {CapOk(0), CapPanic}

\* What the Rust body of a trampoline does: return (having written the output
\* location or not), or panic (having reached the capability or not).
Returned(status, write, val) ==
    [kind |-> "return", write |-> write, val |-> val, status |-> status,
     dispatched |-> TRUE, asked |-> TRUE]
Panicked(dispatched) ==
    [kind |-> "panic", write |-> FALSE, val |-> 0, status |-> None,
     dispatched |-> dispatched, asked |-> TRUE]
\* a return that never consulted the registry
ReturnedEarly ==
    [kind |-> "return", write |-> FALSE, val |-> 0, status |-> None,
     dispatched |-> FALSE, asked |-> FALSE]

\* A match that writes the output location on both arms.
OutMatchWriteAlways(res) ==
    IF res.tag = "Panic" THEN Panicked(TRUE)
    ELSE IF res.tag = "Ok" THEN Returned("Ok", TRUE, res.val)
    ELSE Returned(res.status, TRUE, res.val)

\* match cap_call { Ok(ret) => { *val = ret; Status::Ok }, Err(status) => status }
OutMatch(res) ==
    IF res.tag = "Panic" THEN Panicked(TRUE)
    ELSE IF res.tag = "Ok" THEN Returned("Ok", TRUE, res.val)
    ELSE Returned(res.status, FALSE, 0)

\* match cap_call { Ok(()) => Status::Ok, Err(status) => status }
UnitMatch(res) ==
    IF res.tag = "Panic" THEN Panicked(TRUE)
    ELSE IF res.tag = "Ok" THEN Returned("Ok", FALSE, 0)
    ELSE Returned(res.status, FALSE, 0)

\* a capability call whose value is the trampoline's return value
PlainReturn(res) ==
    IF res.tag = "Panic" THEN Panicked(TRUE) ELSE Returned(res.val, FALSE, 0)

\* get_kernel_api() is evaluated first: without a registered capability the
\* body panics before anything else happens.
WithApi(body) == IF get_kernel_api = Panic THEN Panicked(FALSE) ELSE body

\* A boundary that lets a panic unwind into the caller's frame.
ExternCUnwind(outcome) == IF outcome.kind = "panic" THEN "unwound" ELSE "running"

\* extern "C" fn: the ABI cannot unwind, so a panic that reaches the boundary
\* ends the process; a normal return goes back to the engine.
ExternC(outcome) == IF outcome.kind = "panic" THEN "aborted" ELSE "running"

\* One call of a trampoline by the engine, given the raw arguments `input`;
\* what the capability does to its own state is the caller's to say.
TrampolineIn(fn, ptr, input, arg, res, outcome) ==
    /\ process = "running"
    /\ lastInput' = input
    /\ process' = ExternC(outcome)
    /\ mem' = IF outcome.kind = "return" /\ outcome.write
              THEN [mem EXCEPT ![ptr] = outcome.val] ELSE mem
    /\ ret' = IF outcome.kind = "return" THEN outcome.status ELSE ret
    /\ lastCall' =
          [fn |-> fn, ptr |-> ptr, registry |-> KERNEL_API,
           asked |-> outcome.asked,
           dispatched |-> IF outcome.dispatched THEN get_kernel_api ELSE None,
           arg |-> IF outcome.dispatched THEN arg ELSE NoArg,
           res |-> IF outcome.dispatched THEN res ELSE NotCalled,
           before |-> IF ptr = None THEN 0 ELSE mem[ptr],
           assigned |-> outcome.kind = "return" /\ outcome.write,
           panicked |-> outcome.kind = "panic"]
    /\ UNCHANGED <<KERNEL_API, overflow_checks, setCalls, firstApi, convVars, objVars, lifeVars>>

\* One call of a trampoline whose capability keeps no state of its own.
Trampoline(fn, ptr, arg, res, outcome) ==
    /\ TrampolineIn(fn, ptr, NoArg, arg, res, outcome)
    /\ UNCHANGED hostVars

OutTrampoline(fn) ==
    \E ptr \in Ptrs, res \in CapResultsVal :
        Trampoline(fn, ptr, NoArg, res, WithApi(OutMatch(res)))

uacpi_kernel_raw_memory_read == OutTrampoline("raw_memory_read")
uacpi_kernel_raw_io_read == OutTrampoline("raw_io_read")
uacpi_kernel_pci_read == OutTrampoline("pci_read")
uacpi_kernel_io_map == OutTrampoline("io_map")
uacpi_kernel_io_read == OutTrampoline("io_read")
uacpi_kernel_install_interrupt_handler == OutTrampoline("install_interrupt_handler")

\* Layout::from_size_align(size, align): an error when size, rounded up to
\* align, exceeds isize::MAX.
LayoutError == [size |-> -1, align |-> 0]
LayoutFromSizeAlign(size, align) ==
    IF size > ISIZE_MAX - (align - 1) THEN LayoutError ELSE [size |-> size, align |-> align]

\* .alloc(Layout::from_size_align(size, 8).unwrap())
AllocBody(size, res) ==
    IF LayoutFromSizeAlign(size, 8) = LayoutError THEN Panicked(FALSE) ELSE PlainReturn(res)

uacpi_kernel_alloc ==
    \E size \in SizeInputs, res \in CapReturnsPtr :
        Trampoline("alloc", None, LayoutFromSizeAlign(size, 8), res,
                   WithApi(AllocBody(size, res)))

\* count * size in usize: a panic in a build with overflow checks, else wrapped.
MulUsize(a, b) ==
    IF a * b > USIZE_MAX
    THEN (IF overflow_checks THEN -1 ELSE (a * b) % (USIZE_MAX + 1))
    ELSE a * b

uacpi_kernel_calloc ==
    \E count \in {0, 1, 2, 8}, size \in SizeInputs, res \in CapReturnsPtr :
        LET bytes == MulUsize(count, size) IN
        Trampoline("calloc", None, LayoutFromSizeAlign(bytes, 8), res,
                   WithApi(IF bytes = -1 THEN Panicked(FALSE) ELSE AllocBody(bytes, res)))

\* A body that goes to the capability whatever the pointer is.
FreeBodyNoNullCheck(ptr, size, res) == WithApi(AllocBody(size, res))

\* if !ptr.is_null() { get_kernel_api().dealloc(ptr, Layout::from_size_align(size, 8).unwrap()) }
FreeBody(ptr, size, res) ==
    IF ptr = NullPtr THEN ReturnedEarly ELSE WithApi(AllocBody(size, res))

\* The arguments dealloc gets: ptr.cast() and the layout of `size` bytes.
FreeArg(ptr, size) == [ptr |-> ptr, layout |-> LayoutFromSizeAlign(size, 8)]

uacpi_kernel_free ==
    \E ptr \in {NullPtr, 1}, size \in SizeInputs, res \in CapReturnsUnit :
        /\ TrampolineIn("free", None, [ptr |-> ptr, size |-> size], FreeArg(ptr, size), res,
                        FreeBody(ptr, size, res))
        /\ UNCHANGED hostVars

IsCont(b) == b >= 128 /\ b <= 191

\* core::str::from_utf8 on the bytes of the C string.
RECURSIVE Utf8Valid(_)
Utf8Valid(b) ==
    IF b = <<>> THEN TRUE
    ELSE LET x == Head(b)
             n == Len(b)
         IN IF x < 128 THEN Utf8Valid(Tail(b))
            ELSE IF x >= 194 /\ x <= 223
                 THEN n >= 2 /\ IsCont(b[2]) /\ Utf8Valid(SubSeq(b, 3, n))
            ELSE IF x >= 224 /\ x <= 239
                 THEN /\ n >= 3
                      /\ IsCont(b[2]) /\ IsCont(b[3])
                      /\ (x = 224 => b[2] >= 160)
                      /\ (x = 237 => b[2] <= 159)
                      /\ Utf8Valid(SubSeq(b, 4, n))
            ELSE IF x >= 240 /\ x <= 244
                 THEN /\ n >= 4
                      /\ IsCont(b[2]) /\ IsCont(b[3]) /\ IsCont(b[4])
                      /\ (x = 240 => b[2] >= 144)
                      /\ (x = 244 => b[2] <= 143)
                      /\ Utf8Valid(SubSeq(b, 5, n))
            ELSE FALSE

\* get_kernel_api().log(LogLevel(log_level), s.to_str().unwrap())
uacpi_kernel_log ==
    \E str \in LogStrings, res \in CapReturnsUnit :
        Trampoline("log", None, str, res,
                   WithApi(IF Utf8Valid(str) THEN PlainReturn(res) ELSE Panicked(FALSE)))

\* The raw requests the engine hands over (a tag and the union's fields).
RawRequests ==
    {[type_ |-> t, ctx |-> c, ftype |-> c, code |-> c + 1, arg |-> c + 2] :
        t \in RequestTags, c \in CapValues}

\* A decoding that takes the fatal request's code and argument from each
\* other's field.
FirmwareRequestFromSwapped(value) ==
    CASE value.type_ = UACPI_FIRMWARE_REQUEST_TYPE_BREAKPOINT ->
            [variant |-> "Breakpoint", context |-> value.ctx]
      [] value.type_ = UACPI_FIRMWARE_REQUEST_TYPE_FATAL ->
            [variant |-> "Fatal", typ |-> value.ftype, code |-> value.arg, arg |-> value.code]
      [] OTHER -> [variant |-> Panic]

\* impl From<uacpi_firmware_request> for FirmwareRequest
FirmwareRequestFrom(value) ==
    CASE value.type_ = UACPI_FIRMWARE_REQUEST_TYPE_BREAKPOINT ->
            [variant |-> "Breakpoint", context |-> value.ctx]
      [] value.type_ = UACPI_FIRMWARE_REQUEST_TYPE_FATAL ->
            [variant |-> "Fatal", typ |-> value.ftype, code |-> value.code, arg |-> value.arg]
      [] OTHER -> [variant |-> Panic]

\* match get_kernel_api().firmware_request(req.read().into()) { .. }
uacpi_kernel_handle_firmware_request ==
    \E req \in RawRequests, res \in CapResultsUnit :
        /\ TrampolineIn("handle_firmware_request", None, req, FirmwareRequestFrom(req), res,
                        WithApi(IF FirmwareRequestFrom(req).variant = Panic
                                THEN Panicked(FALSE) ELSE UnitMatch(res)))
        /\ UNCHANGED hostVars

(* ---------------------------------------------------------------- *)
(* The engine's objects and the Object wrapper.                      *)
(* ---------------------------------------------------------------- *)
\* Number of objects the engine can hold.
MaxObjects == 3
\* Number of wrappers alive at once.
MaxWrappers == 3
ObjIds == 1 .. MaxObjects

UACPI_OBJECT_UNINITIALIZED == "UNINITIALIZED"
UACPI_OBJECT_INTEGER == "INTEGER"
UACPI_OBJECT_STRING == "STRING"
UACPI_OBJECT_BUFFER == "BUFFER"
UACPI_OBJECT_PACKAGE == "PACKAGE"

\* u64 values given to new_int.
IntValues == {0, 42}

FreeSlot ==
    [state |-> "free", type |-> UACPI_OBJECT_UNINITIALIZED, integer |-> 0,
     bytes |-> <<>>, children |-> <<>>, rc |-> 0]

NoIter == [pkg |-> 0, idx |-> 0, count |-> 0]
NoAccess ==
    [fn |-> "none", obj |-> 0, tag |-> UACPI_OBJECT_UNINITIALIZED, result |-> [some |-> FALSE]]

ObjInit ==
    /\ heap = [o \in ObjIds |-> FreeSlot]
    /\ owned = [o \in ObjIds |-> 0]
    /\ borrowed = [o \in ObjIds |-> 0]
    /\ iter = NoIter
    /\ snap = [rc |-> [o \in ObjIds |-> 0], pure |-> FALSE]
    /\ yielded = <<>>
    /\ acquired = [o \in ObjIds |-> 0]
    /\ unrefs = [o \in ObjIds |-> 0]
    /\ newIntArg = [o \in ObjIds |-> -1]
    /\ lastAccess = NoAccess
    /\ heapUB = FALSE

FreeIds(h) == {o \in ObjIds : h[o].state = "free"}
\* the slot the engine's allocator hands out next
NextFree(h) == CHOOSE o \in FreeIds(h) : \A q \in FreeIds(h) : o <= q
Wrappers(o) == owned[o] + borrowed[o]
RECURSIVE SumOver(_, _)
SumOver(f, S) ==
    IF S = {} THEN 0 ELSE LET x == CHOOSE y \in S : TRUE IN f[x] + SumOver(f, S \ {x})
LiveWrappers == SumOver(owned, ObjIds) + SumOver(borrowed, ObjIds)

\* uacpi_create_object(t): a fresh object of type t holding one reference.
uacpi_create_object(h, t) ==
    [h EXCEPT ![NextFree(h)] =
        [state |-> "live", type |-> t, integer |-> 0, bytes |-> <<>>,
         children |-> <<>>, rc |-> 1]]

\* uacpi_object_unref(obj): drop one reference; the last one releases the
\* object, and a released package drops the reference it holds on each child.
\* Unref of an object already released is a use after free.
RECURSIVE UnrefOne(_, _), UnrefAll(_, _)
UnrefOne(st, o) ==
    IF st.ub THEN st
    ELSE IF st.heap[o].state # "live" THEN [st EXCEPT !.ub = TRUE]
    ELSE IF st.heap[o].rc > 1 THEN [st EXCEPT !.heap[o].rc = @ - 1]
    ELSE UnrefAll([st EXCEPT !.heap[o].rc = 0, !.heap[o].state = "released"],
                  st.heap[o].children)
UnrefAll(st, objs) ==
    IF objs = <<>> THEN st ELSE UnrefAll(UnrefOne(st, Head(objs)), Tail(objs))

uacpi_object_unref(h, o) == UnrefOne([heap |-> h, ub |-> FALSE], o)

\* What uacpi_eval can hand back: an integer, a string, a buffer, or a package
\* of 0..2 integers. The caller gets one reference to the result; a package
\* holds one reference to each child.
EvalShapes == {"integer", "string", "buffer", "package0", "package1", "package2"}
ChildCount(shape) ==
    CASE shape = "package1" -> 1 [] shape = "package2" -> 2 [] OTHER -> 0

RECURSIVE AddChildren(_, _, _)
AddChildren(h, pkg, n) ==
    IF n = 0 THEN h
    ELSE LET c == NextFree(h)
             h1 == uacpi_create_object(h, UACPI_OBJECT_INTEGER)
             h2 == [h1 EXCEPT ![c].integer = n, ![pkg].children = Append(@, c)]
         IN AddChildren(h2, pkg, n - 1)

EngineEval(h, shape) ==
    LET r == NextFree(h)
        t == CASE shape = "integer" -> UACPI_OBJECT_INTEGER
               [] shape = "string" -> UACPI_OBJECT_STRING
               [] shape = "buffer" -> UACPI_OBJECT_BUFFER
               [] OTHER -> UACPI_OBJECT_PACKAGE
        h1 == uacpi_create_object(h, t)
        h2 == CASE shape = "integer" -> [h1 EXCEPT ![r].integer = 42]
                [] shape = "string" -> [h1 EXCEPT ![r].bytes = <<65, 0>>]
                [] shape = "buffer" -> [h1 EXCEPT ![r].bytes = <<1, 2>>]
                [] OTHER -> h1
    IN [heap |-> AddChildren(h2, r, ChildCount(shape)), ret |-> r]

\* Any object action other than the iterator's own and the drop of its items
\* ends the span the snapshot covers.
Impure == [snap EXCEPT !.pure = FALSE]

\* Object::new_int(value): Object::new(UACPI_OBJECT_INTEGER)?, then store value.
new_int(value, created) ==
    /\ ~heapUB
    /\ LiveWrappers < MaxWrappers
    /\ IF created /\ FreeIds(heap) # {}
       THEN LET o == NextFree(heap) IN
            /\ heap' = [uacpi_create_object(heap, UACPI_OBJECT_INTEGER) EXCEPT ![o].integer = value]
            /\ owned' = [owned EXCEPT ![o] = @ + 1]
            /\ acquired' = [acquired EXCEPT ![o] = @ + 1]
            /\ newIntArg' = [newIntArg EXCEPT ![o] = value]
       ELSE UNCHANGED <<heap, owned, acquired, newIntArg>>
    /\ snap' = Impure
    /\ UNCHANGED <<borrowed, iter, yielded, unrefs, lastAccess, heapUB, convVars, regVars, lifeVars, hostVars>>

\* Statuses uacpi_eval returns.
EvalStatuses ==
    {UACPI_STATUS_OK, UACPI_STATUS_NOT_FOUND, UACPI_STATUS_AML_UNDEFINED_REFERENCE}

\* eval(parent, path, args): Ok(Object(ret)) when the status converts to
\* Status::Ok, Err(status) otherwise.
eval(shape, status) ==
    /\ ~heapUB
    /\ LiveWrappers < MaxWrappers
    /\ IF StatusFrom(status) = "Ok"
       THEN /\ Cardinality(FreeIds(heap)) >= 1 + ChildCount(shape)
            /\ LET e == EngineEval(heap, shape) IN
               /\ heap' = e.heap
               /\ owned' = [owned EXCEPT ![e.ret] = @ + 1]
               /\ acquired' = [acquired EXCEPT ![e.ret] = @ + 1]
       ELSE UNCHANGED <<heap, owned, acquired>>
    /\ snap' = Impure
    /\ UNCHANGED <<borrowed, iter, yielded, unrefs, newIntArg, lastAccess, heapUB,
                   convVars, regVars, lifeVars, hostVars>>

NoneVal == [some |-> FALSE]
SomeVal(v) == [some |-> TRUE, val |-> v]
\* an accessor that panicked instead of returning
PanicVal == [panic |-> TRUE]

\* An accessor that does not look at the type tag.
get_int_untagged(o) == SomeVal(heap[o].integer)

\* Object::get_int
get_int(o) ==
    IF heap[o].type # UACPI_OBJECT_INTEGER THEN NoneVal ELSE SomeVal(heap[o].integer)

\* Object::get_buffer
get_buffer(o) ==
    IF heap[o].type # UACPI_OBJECT_BUFFER THEN NoneVal ELSE SomeVal(heap[o].bytes)

\* CStr::from_bytes_with_nul: the last byte is the only NUL.
IsCStr(b) == Len(b) >= 1 /\ b[Len(b)] = 0 /\ \A i \in 1 .. Len(b) - 1 : b[i] # 0

\* Object::get_string
get_string(o) ==
    IF heap[o].type # UACPI_OBJECT_STRING THEN NoneVal
    ELSE IF IsCStr(heap[o].bytes) THEN SomeVal(heap[o].bytes) ELSE PanicVal

\* Object::get_package: the iterator over the package's objects, not yet advanced.
get_package(o) ==
    IF heap[o].type # UACPI_OBJECT_PACKAGE THEN NoneVal
    ELSE SomeVal([pkg |-> o, idx |-> 0, count |-> Len(heap[o].children)])

\* A call of get_int / get_buffer / get_string through a wrapper of object o.
Access(fn, o, result) ==
    /\ ~heapUB
    /\ Wrappers(o) > 0
    /\ IF heap[o].state # "live"
       THEN heapUB' = TRUE /\ UNCHANGED lastAccess
       ELSE /\ lastAccess' = [fn |-> fn, obj |-> o, tag |-> heap[o].type, result |-> result]
            /\ UNCHANGED heapUB
    /\ snap' = Impure
    /\ UNCHANGED <<heap, owned, borrowed, iter, yielded, acquired, unrefs, newIntArg,
                   convVars, regVars, lifeVars, hostVars>>

CallGetInt == \E o \in ObjIds : Access("get_int", o, get_int(o))
CallGetBuffer == \E o \in ObjIds : Access("get_buffer", o, get_buffer(o))
CallGetString == \E o \in ObjIds : Access("get_string", o, get_string(o))

\* A call of get_package through a wrapper of object o; Some(iterator) replaces
\* the iterator in use and records the refcounts at this point.
CallGetPackage ==
    \E o \in ObjIds :
        /\ ~heapUB
        /\ Wrappers(o) > 0
        /\ IF heap[o].state # "live"
           THEN heapUB' = TRUE /\ UNCHANGED <<lastAccess, iter, snap, yielded>>
           ELSE LET r == get_package(o) IN
                /\ lastAccess' = [fn |-> "get_package", obj |-> o, tag |-> heap[o].type,
                                  result |-> [some |-> r.some]]
                /\ IF r.some
                   THEN /\ iter' = r.val
                        /\ snap' = [rc |-> [q \in ObjIds |-> heap[q].rc], pure |-> TRUE]
                        /\ yielded' = <<>>
                   ELSE /\ snap' = Impure
                        /\ UNCHANGED <<iter, yielded>>
                /\ UNCHANGED heapUB
        /\ UNCHANGED <<heap, owned, borrowed, acquired, unrefs, newIntArg, convVars, regVars, lifeVars, hostVars>>

\* Iterator::next on the iterator: .map(|obj| Self(*obj)) wraps the next
\* pointer of the package's array.
IterNext ==
    /\ ~heapUB
    /\ iter # NoIter
    /\ iter.idx < iter.count
    /\ LiveWrappers < MaxWrappers
    /\ IF heap[iter.pkg].state # "live"
       THEN heapUB' = TRUE /\ UNCHANGED <<iter, borrowed, yielded>>
       ELSE LET c == heap[iter.pkg].children[iter.idx + 1] IN
            /\ borrowed' = [borrowed EXCEPT ![c] = @ + 1]
            /\ yielded' = Append(yielded, c)
            /\ iter' = [iter EXCEPT !.idx = @ + 1]
            /\ UNCHANGED heapUB
    /\ UNCHANGED <<heap, owned, snap, acquired, unrefs, newIntArg, lastAccess,
                   convVars, regVars, lifeVars, hostVars>>

\* impl Drop for Object: uacpi_object_unref(self.0), whatever made the wrapper.
DropObject(o, isItem) ==
    /\ ~heapUB
    /\ IF isItem THEN borrowed[o] > 0 ELSE owned[o] > 0
    /\ LET st == uacpi_object_unref(heap, o) IN
       /\ heap' = st.heap
       /\ heapUB' = st.ub
    /\ unrefs' = [unrefs EXCEPT ![o] = @ + 1]
    /\ IF isItem
       THEN borrowed' = [borrowed EXCEPT ![o] = @ - 1] /\ UNCHANGED <<owned, snap>>
       ELSE owned' = [owned EXCEPT ![o] = @ - 1] /\ snap' = Impure /\ UNCHANGED borrowed
    /\ UNCHANGED <<iter, yielded, acquired, newIntArg, lastAccess, convVars, regVars, lifeVars, hostVars>>

ObjNext ==
    \/ \E v \in IntValues, created \in BOOLEAN : new_int(v, created)
    \/ \E shape \in EvalShapes, status \in EvalStatuses : eval(shape, status)
    \/ CallGetPackage
    \/ IterNext
    \/ \E o \in ObjIds, isItem \in BOOLEAN : DropObject(o, isItem)

AccessNext ==
    \/ \E v \in IntValues, created \in BOOLEAN : new_int(v, created)
    \/ \E shape \in EvalShapes, status \in EvalStatuses : eval(shape, status)
    \/ CallGetInt
    \/ CallGetBuffer
    \/ CallGetString
    \/ CallGetPackage

(* ---------------------------------------------------------------- *)
(* The init lifecycle.                                               *)
(* ---------------------------------------------------------------- *)
\* Number of get_current_init_level calls a run records.
MaxObserved == 3

NoLife == [fn |-> "none", before |-> 0, ok |-> FALSE, err |-> None]

LifeInit ==
    /\ init_level = UACPI_INIT_LEVEL_EARLY
    /\ lastLife = NoLife
    /\ lastOk = "none"
    /\ observed = <<>>

\* The level an engine entry point must find.
RequiredLevel(fn) ==
    CASE fn = "init" -> UACPI_INIT_LEVEL_EARLY
      [] fn = "namespace_load" -> UACPI_INIT_LEVEL_SUBSYSTEM_INITIALIZED
      [] fn = "namespace_initialize" -> UACPI_INIT_LEVEL_NAMESPACE_LOADED

\* Statuses an entry point called at its level can return.
LifecycleStatuses ==
    {UACPI_STATUS_OK, UACPI_STATUS_OUT_OF_MEMORY, UACPI_STATUS_BAD_CHECKSUM,
     UACPI_STATUS_AML_BAD_ENCODING}

\* uacpi_initialize / uacpi_namespace_load / uacpi_namespace_initialize: at
\* another level than the required one, INIT_LEVEL_MISMATCH and no change;
\* at the required level, OK and the next level, or an error and no change.
EngineLifecycle(fn, level, status) ==
    IF level # RequiredLevel(fn)
    THEN [status |-> UACPI_STATUS_INIT_LEVEL_MISMATCH, level |-> level]
    ELSE IF status = UACPI_STATUS_OK
         THEN [status |-> UACPI_STATUS_OK, level |-> level + 1]
         ELSE [status |-> status, level |-> level]

\* let status: Status = raw.into(); match status { Status::Ok => Ok(()), _ => Err(status) }
ResultOf(status) ==
    IF StatusFrom(status) = "Ok"
    THEN [ok |-> TRUE, err |-> None]
    ELSE [ok |-> FALSE, err |-> StatusFrom(status)]

Lifecycle(fn) ==
    \E status \in LifecycleStatuses :
        LET e == EngineLifecycle(fn, init_level, status)
            r == ResultOf(e.status)
        IN /\ init_level' = e.level
           /\ lastLife' = [fn |-> fn, before |-> init_level, ok |-> r.ok, err |-> r.err]
           /\ lastOk' = IF r.ok THEN fn ELSE lastOk
           /\ UNCHANGED <<observed, convVars, regVars, objVars, hostVars>>

\* pub fn init(rsdp, log_level, no_acpi_mode)
init == Lifecycle("init")
\* pub fn namespace_load()
namespace_load == Lifecycle("namespace_load")
\* pub fn namespace_initialize()
namespace_initialize == Lifecycle("namespace_initialize")

\* pub fn get_current_init_level(): uacpi_get_current_init_level().into()
get_current_init_level ==
    /\ Len(observed) < MaxObserved
    /\ observed' = Append(observed, [level |-> InitLevelFrom(init_level), after |-> lastOk])
    /\ UNCHANGED <<init_level, lastLife, lastOk, convVars, regVars, objVars, hostVars>>

LifeNext ==
    \/ init
    \/ namespace_load
    \/ namespace_initialize
    \/ get_current_init_level

(* ---------------------------------------------------------------- *)
(* Interrupt handlers.                                               *)
(* ---------------------------------------------------------------- *)
\* Interrupt lines, engine handlers (extern "C" fn(Handle)) and contexts.
Irqs == {9, 10}
EngineHandlers == {"h1", "h2"}
Contexts == {1, 2}
\* What the engine installs: a line, a handler and the handler's context.
IrqRegistrations ==
    {[irq |-> 9, handler |-> "h1", ctx |-> 2],
     [irq |-> 9, handler |-> "h2", ctx |-> 1],
     [irq |-> 10, handler |-> "h1", ctx |-> 1]}
\* Handles the capability hands out for installed handlers.
IrqHandles == {1, 2}
\* Interrupts a run simulates at most.
MaxIrqs == 2
\* Statuses a capability that keeps its contract returns in Err.
CapFailures == {"InternalError"}

\* A handle under which nothing is installed.
NoHandler == [irq |-> -1, closure |-> <<>>]

IrqIdle ==
    /\ irq_table = [k \in IrqHandles |-> NoHandler]
    /\ irq_view = {}
    /\ irq_log = <<>>

\* A closure that calls the handler with a context of its own making.
IrqClosureLosesCtx(handler, ctx) == <<[h |-> handler, c |-> 0]>>

\* Box::new(move || handler(ctx)): the engine-handler calls one invocation of
\* the closure makes.
IrqClosure(handler, ctx) == <<[h |-> handler, c |-> ctx]>>

\* get_kernel_api().uninstall_interrupt_handler(irq_handle): _handler is unused.
UninstallArg(handler, irq_handle) == irq_handle

\* KernelApi::install_interrupt_handler: the handler is stored under a handle
\* not in use and the handle returned, or nothing is stored and Err returned.
CapInstallResults ==
    {CapOk(k) : k \in {k \in IrqHandles : irq_table[k] = NoHandler}}
        \cup {CapErr(e) : e \in CapFailures}

\* KernelApi::uninstall_interrupt_handler: the handler under the handle is
\* removed, or nothing is and Err returned.
CapUninstallResults == {CapOk(0)} \cup {CapErr(e) : e \in CapFailures}

\* uacpi_kernel_install_interrupt_handler(irq, handler, ctx, out_irq_handle)
\* against a capability that keeps a table of handlers.
InstallInterruptHandler ==
    \E reg \in IrqRegistrations, ptr \in {"p1"}, res \in CapInstallResults :
        LET irq == reg.irq
            handler == reg.handler
            ctx == reg.ctx
            closure == IrqClosure(handler, ctx)
            outcome == WithApi(OutMatch(res))
        IN /\ TrampolineIn("install_interrupt_handler", ptr,
                           [irq |-> irq, handler |-> handler, ctx |-> ctx],
                           [irq |-> irq, closure |-> closure], res, outcome)
           /\ irq_table' =
                 IF outcome.dispatched /\ res.tag = "Ok"
                 THEN [irq_table EXCEPT ![res.val] = [irq |-> irq, closure |-> closure]]
                 ELSE irq_table
           /\ irq_view' =
                 IF outcome.kind = "return" /\ outcome.status = "Ok"
                 THEN irq_view \cup
                        {[irq |-> irq, h |-> handler, c |-> ctx, handle |-> mem'[ptr]]}
                 ELSE irq_view
           /\ UNCHANGED <<irq_log, notIrq>>

\* uacpi_kernel_uninstall_interrupt_handler(_handler, irq_handle), called by
\* the engine for a handler it installed.
UninstallInterruptHandler ==
    \E v \in irq_view, res \in CapUninstallResults :
        LET arg == UninstallArg(v.h, v.handle)
            outcome == WithApi(UnitMatch(res))
        IN /\ TrampolineIn("uninstall_interrupt_handler", None,
                           [handler |-> v.h, irq_handle |-> v.handle], arg, res, outcome)
           /\ irq_table' =
                 IF outcome.dispatched /\ res.tag = "Ok" /\ arg \in IrqHandles
                 THEN [irq_table EXCEPT ![arg] = NoHandler]
                 ELSE irq_table
           /\ irq_view' =
                 IF outcome.kind = "return" /\ outcome.status = "Ok"
                 THEN irq_view \ {v}
                 ELSE irq_view
           /\ UNCHANGED <<irq_log, notIrq>>

\* The engine-handler calls made when every closure installed for irq under
\* one of the handles is invoked once, in handle order.
RECURSIVE InvokeInstalled(_, _)
InvokeInstalled(irq, handles) ==
    IF handles = {} THEN <<>>
    ELSE LET k == CHOOSE x \in handles : \A y \in handles : x <= y
         IN (IF irq_table[k].irq = irq THEN irq_table[k].closure ELSE <<>>)
                \o InvokeInstalled(irq, handles \ {k})

\* A simulated interrupt: the capability invokes the closures it holds for
\* the line.
SimulateInterrupt ==
    \E irq \in Irqs :
        /\ process = "running"
        /\ Len(irq_log) < MaxIrqs
        /\ irq_log' = Append(irq_log, [irq |-> irq,
                                       invoked |-> InvokeInstalled(irq, IrqHandles),
                                       view |-> {v \in irq_view : v.irq = irq}])
        /\ UNCHANGED <<irq_table, irq_view, notIrq, convVars, regVars, objVars, lifeVars>>

IrqNext ==
    \/ set_kernel_api("apiA")
    \/ InstallInterruptHandler
    \/ UninstallInterruptHandler
    \/ SimulateInterrupt

(* ---------------------------------------------------------------- *)
(* Deferred work.                                                    *)
(* ---------------------------------------------------------------- *)
\* Work the engine schedules from interrupt context: one item of each kind.
WorkItems ==
    {[work_type |-> "GPEExecution", handler |-> "h1", ctx |-> 1],
     [work_type |-> "Notification", handler |-> "h2", ctx |-> 2]}
\* Items a run schedules at most.
MaxWork == 2

NoWait == [queue |-> <<>>, ran |-> <<>>, view |-> <<>>]

WorkIdle ==
    /\ work_queue = <<>>
    /\ work_ran = <<>>
    /\ work_view = <<>>
    /\ wait_pc = "idle"
    /\ lastWait = NoWait

\* A closure that calls the handler with a context of its own making.
WorkClosureLosesCtx(handler, ctx) == <<[h |-> handler, c |-> 0]>>

\* Box::new(move || handler(ctx))
WorkClosure(handler, ctx) == <<[h |-> handler, c |-> ctx]>>

\* KernelApi::schedule_work: the work is queued for execution, or Err returned.
CapScheduleResults == {CapOk(0)} \cup {CapErr(e) : e \in CapFailures}

\* uacpi_kernel_schedule_work(work_type, handler, ctx)
ScheduleWork ==
    \E item \in WorkItems, res \in CapScheduleResults :
        LET closure == WorkClosure(item.handler, item.ctx)
            outcome == WithApi(UnitMatch(res))
        IN /\ Len(work_view) < MaxWork
           /\ TrampolineIn("schedule_work", None, item,
                           [work_type |-> item.work_type, closure |-> closure], res, outcome)
           /\ work_queue' =
                 IF outcome.dispatched /\ res.tag = "Ok"
                 THEN Append(work_queue, [work_type |-> item.work_type, closure |-> closure])
                 ELSE work_queue
           /\ work_view' =
                 IF outcome.kind = "return" /\ outcome.status = "Ok"
                 THEN Append(work_view, item)
                 ELSE work_view
           /\ UNCHANGED <<work_ran, wait_pc, lastWait, notWork>>

\* The capability runs the work at the head of its queue: it invokes the
\* closure once.
RunWork ==
    /\ process = "running"
    /\ work_queue # <<>>
    /\ work_queue' = Tail(work_queue)
    /\ work_ran' = work_ran \o Head(work_queue).closure
    /\ UNCHANGED <<work_view, wait_pc, lastWait, notWork, convVars, regVars, objVars, lifeVars>>

\* uacpi_kernel_wait_for_work_completion() is entered from normal context:
\* without a registered capability it panics, else the capability's
\* wait_for_work_completion starts to block.
WaitCall ==
    /\ wait_pc # "waiting"
    /\ IF get_kernel_api = Panic
       THEN /\ TrampolineIn("wait_for_work_completion", None, NoArg, NoArg, NotCalled,
                            Panicked(FALSE))
            /\ UNCHANGED wait_pc
       ELSE /\ process = "running"
            /\ wait_pc' = "waiting"
            /\ UNCHANGED <<convVars, regVars, objVars, lifeVars>>
    /\ UNCHANGED <<work_queue, work_ran, work_view, lastWait, notWork>>

\* KernelApi::wait_for_work_completion returns Ok once all scheduled work is
\* complete and the queue is empty; the trampoline returns Status::Ok.
WaitReturn ==
    /\ wait_pc = "waiting"
    /\ work_queue = <<>>
    /\ TrampolineIn("wait_for_work_completion", None, NoArg, NoArg, CapOk(0),
                    WithApi(UnitMatch(CapOk(0))))
    /\ wait_pc' = "returned"
    /\ lastWait' = [queue |-> work_queue, ran |-> work_ran, view |-> work_view]
    /\ UNCHANGED <<work_queue, work_ran, work_view, notWork>>

WorkNext ==
    \/ set_kernel_api("apiA")
    \/ ScheduleWork
    \/ RunWork
    \/ WaitCall
    \/ WaitReturn

(* ---------------------------------------------------------------- *)
(* Mutexes and events.                                               *)
(* ---------------------------------------------------------------- *)
\* "A timeout value of 0xFFFF implies infinite wait."
TIMEOUT_INFINITE == 65535
\* Timeouts (u16 milliseconds) the engine passes.
SyncTimeouts == {0, 5, 256, TIMEOUT_INFINITE}
\* The event counter's largest value in a run.
MaxSignals == 2

NoPending == [fn |-> "none", timeout |-> 0, seen |-> 0]
NoSync ==
    [fn |-> "none", timeout |-> 0, seen |-> 0, result |-> FALSE, returned |-> FALSE,
     avail |-> FALSE, blocked |-> FALSE]

SyncIdle ==
    /\ mutex_held = FALSE
    /\ event_counter = 0
    /\ sync_pc = NoPending
    /\ lastSync = NoSync

\* A timeout that goes through a narrower type on its way to the capability.
TimeoutArgNarrowed(timeout) == timeout % 256

\* get_kernel_api().acquire_mutex(mutex, timeout) / .wait_for_event(event, timeout):
\* the timeout the capability is given.
TimeoutArg(timeout) == timeout

\* KernelApi::acquire_mutex / wait_for_event: what the call waits for.
Available(fn) == IF fn = "acquire_mutex" THEN ~mutex_held ELSE event_counter > 0

\* The call succeeds: the mutex is taken / the counter decremented by 1.
Take(fn) ==
    IF fn = "acquire_mutex"
    THEN mutex_held' = TRUE /\ UNCHANGED event_counter
    ELSE event_counter' = event_counter - 1 /\ UNCHANGED mutex_held

\* The capability returns result and the trampoline returns it to the engine.
SyncReturn(fn, timeout, seen, result, blocked) ==
    LET outcome == WithApi(PlainReturn(CapOk(result)))
    IN /\ TrampolineIn(fn, None, [timeout |-> timeout], [timeout |-> seen],
                       CapOk(result), outcome)
       /\ lastSync' = [fn |-> fn, timeout |-> timeout, seen |-> seen, result |-> result,
                       returned |-> outcome.status, avail |-> Available(fn),
                       blocked |-> blocked]
       /\ sync_pc' = NoPending
       /\ IF result THEN Take(fn) ELSE UNCHANGED <<mutex_held, event_counter>>
       /\ UNCHANGED notSync

\* An acquire or wait enters the trampoline: it panics without a capability,
\* returns at once when what it waits for is available or the timeout is 0,
\* and blocks in the capability otherwise.
SyncCall(fn, timeout) ==
    /\ sync_pc = NoPending
    /\ IF get_kernel_api = Panic
       THEN /\ TrampolineIn(fn, None, [timeout |-> timeout], NoArg, NotCalled,
                            Panicked(FALSE))
            /\ UNCHANGED <<syncVars, notSync>>
       ELSE LET seen == TimeoutArg(timeout)
            IN IF Available(fn) THEN SyncReturn(fn, timeout, seen, TRUE, FALSE)
               ELSE IF seen = 0 THEN SyncReturn(fn, timeout, seen, FALSE, FALSE)
               ELSE /\ process = "running"
                    /\ sync_pc' = [fn |-> fn, timeout |-> timeout, seen |-> seen]
                    /\ UNCHANGED <<mutex_held, event_counter, lastSync, notSync,
                                   convVars, regVars, objVars, lifeVars>>

uacpi_kernel_acquire_mutex == \E timeout \in SyncTimeouts : SyncCall("acquire_mutex", timeout)
uacpi_kernel_wait_for_event == \E timeout \in SyncTimeouts : SyncCall("wait_for_event", timeout)

\* The blocked call gets what it waits for and returns true.
SyncWake ==
    /\ sync_pc # NoPending
    /\ Available(sync_pc.fn)
    /\ SyncReturn(sync_pc.fn, sync_pc.timeout, sync_pc.seen, TRUE, TRUE)

\* The blocked call's timeout, if it has one, runs out: it returns false.
SyncTimeout ==
    /\ sync_pc # NoPending
    /\ sync_pc.seen # TIMEOUT_INFINITE
    /\ SyncReturn(sync_pc.fn, sync_pc.timeout, sync_pc.seen, FALSE, TRUE)

\* A trampoline that returns nothing and changes the mutex or the event.
SyncChange(fn) ==
    /\ TrampolineIn(fn, None, NoArg, NoArg, CapOk(0), WithApi(PlainReturn(CapOk(0))))
    /\ UNCHANGED <<sync_pc, lastSync, notSync>>

\* get_kernel_api().release_mutex(mutex), by the thread that holds it
uacpi_kernel_release_mutex ==
    /\ mutex_held
    /\ SyncChange("release_mutex")
    /\ mutex_held' = FALSE
    /\ UNCHANGED event_counter

\* get_kernel_api().signal_event(event): the counter goes up by 1
uacpi_kernel_signal_event ==
    /\ KERNEL_API # None
    /\ event_counter < MaxSignals
    /\ SyncChange("signal_event")
    /\ event_counter' = event_counter + 1
    /\ UNCHANGED mutex_held

\* get_kernel_api().reset_event(event): the counter is set to 0
uacpi_kernel_reset_event ==
    /\ KERNEL_API # None
    /\ SyncChange("reset_event")
    /\ event_counter' = 0
    /\ UNCHANGED mutex_held

SyncNext ==
    \/ set_kernel_api("apiA")
    \/ uacpi_kernel_acquire_mutex
    \/ uacpi_kernel_wait_for_event
    \/ SyncWake
    \/ SyncTimeout
    \/ uacpi_kernel_release_mutex
    \/ uacpi_kernel_signal_event
    \/ uacpi_kernel_reset_event

(* ---------------------------------------------------------------- *)
(* Allocation through the default KernelApi::alloc / dealloc.        *)
(* ---------------------------------------------------------------- *)
\* The block the global allocator can hand out.
BlockPtrs == {1}
\* What memory the allocator hands out may hold: byte i of a block is
\* fill[i % 2], for any two bytes.
Fills == [0 .. 1 -> {0, 255}]
ZeroFill == [i \in 0 .. 1 |-> 0]
ByteAt(fill, i) == fill[i % 2]
\* Arguments of uacpi_kernel_alloc and uacpi_kernel_calloc.
AllocSizes == {0, 1, 8, 9, ISIZE_MAX - 7, ISIZE_MAX - 6}
AllocCounts == {1, 2, 8}

NoBlock == [live |-> FALSE, size |-> 0, fill |-> ZeroFill]
NoAlloc ==
    [fn |-> "none", count |-> 0, size |-> 0, bytes |-> 0, ptr |-> NullPtr,
     fill |-> ZeroFill]

AllocIdle ==
    /\ alloc_blocks = [p \in BlockPtrs |-> NoBlock]
    /\ lastAlloc = NoAlloc

\* alloc::alloc::alloc(layout): a block of layout.size() bytes whose contents
\* are not initialized, or null when the allocator has none. (A layout of size
\* 0 is outside the allocator's contract: it may return either, too.)
GlobalAlloc(layout) ==
    {[ptr |-> p, fill |-> f] : p \in {q \in BlockPtrs : ~alloc_blocks[q].live}, f \in Fills}
        \cup {[ptr |-> NullPtr, fill |-> ZeroFill]}

\* unsafe fn alloc(&self, layout: Layout) -> *mut u8 { alloc(layout) }
KernelApiAlloc(layout) == GlobalAlloc(layout)

\* One allocation of `bytes` bytes (a panic when bytes is -1: the product
\* overflowed in a build that checks) through the default capability.
AllocThroughDefault(fn, count, size, bytes) ==
    IF get_kernel_api = Panic \/ bytes = -1 \/ LayoutFromSizeAlign(bytes, 8) = LayoutError
    THEN /\ TrampolineIn(fn, None, [count |-> count, size |-> size], NoArg, NotCalled,
                         Panicked(FALSE))
         /\ UNCHANGED <<allocVars, notAlloc>>
    ELSE \E got \in KernelApiAlloc(LayoutFromSizeAlign(bytes, 8)) :
            /\ TrampolineIn(fn, None, [count |-> count, size |-> size],
                            LayoutFromSizeAlign(bytes, 8), CapOk(got.ptr),
                            PlainReturn(CapOk(got.ptr)))
            /\ alloc_blocks' =
                  IF got.ptr = NullPtr THEN alloc_blocks
                  ELSE [alloc_blocks EXCEPT
                           ![got.ptr] = [live |-> TRUE, size |-> bytes, fill |-> got.fill]]
            /\ lastAlloc' = [fn |-> fn, count |-> count, size |-> size, bytes |-> bytes,
                             ptr |-> got.ptr, fill |-> got.fill]
            /\ UNCHANGED notAlloc

\* uacpi_kernel_alloc(size) with the default KernelApi::alloc
AllocDefault ==
    \E size \in AllocSizes : AllocThroughDefault("alloc", 1, size, size)

\* uacpi_kernel_calloc(count, size) with the default KernelApi::alloc
CallocDefault ==
    \E count \in AllocCounts, size \in AllocSizes :
        AllocThroughDefault("calloc", count, size, MulUsize(count, size))

\* What the engine passes to uacpi_kernel_free: a live block with the size it
\* was given at allocation, or null with any size.
FreeInputs ==
    {[ptr |-> p, size |-> alloc_blocks[p].size] : p \in {q \in BlockPtrs : alloc_blocks[q].live}}
        \cup {[ptr |-> NullPtr, size |-> n] : n \in AllocSizes \cup {USIZE_MAX}}

\* alloc::alloc::dealloc(ptr, layout): the block is the allocator's again. (A
\* pointer the allocator did not hand out is outside its contract: any block
\* may be kept or lost.)
GlobalDealloc(ptr, layout) ==
    IF ptr \in BlockPtrs
    THEN {[alloc_blocks EXCEPT ![ptr] = NoBlock]}
    ELSE {[p \in BlockPtrs |-> IF p \in lost THEN NoBlock ELSE alloc_blocks[p]] :
             lost \in SUBSET BlockPtrs}

\* unsafe fn dealloc(&self, ptr: *mut u8, layout: Layout) { dealloc(ptr, layout) }
KernelApiDealloc(ptr, layout) == GlobalDealloc(ptr, layout)

\* uacpi_kernel_free(ptr, size) with the default KernelApi::dealloc
FreeDefault ==
    \E in \in FreeInputs :
        LET outcome == FreeBody(in.ptr, in.size, CapOk(0)) IN
        /\ TrampolineIn("free", None, in, FreeArg(in.ptr, in.size), CapOk(0), outcome)
        /\ IF outcome.dispatched
           THEN alloc_blocks' \in KernelApiDealloc(in.ptr, LayoutFromSizeAlign(in.size, 8))
           ELSE alloc_blocks' = alloc_blocks
        /\ UNCHANGED <<lastAlloc, notAlloc>>

AllocNext ==
    \/ set_kernel_api("apiA")
    \/ AllocDefault
    \/ CallocDefault
    \/ FreeDefault

(* ---------------------------------------------------------------- *)
(* PCI configuration space.                                          *)
(* ---------------------------------------------------------------- *)
\* The device the engine addresses (*address).
PciDevice == [segment |-> 0, bus |-> 0, device |-> 1, function |-> 0]
\* Offsets of the bytes of one 32-bit register.
PciOffsets == 0 .. 3
\* Accesses the engine makes: an offset and a byte width that stay inside the
\* register.
PciAccesses ==
    {a \in [offset : PciOffsets, byte_width : {1, 2, 4}] : a.offset + a.byte_width <= 4}
\* Values the engine writes (0x5A, 0x5A3C, 0).
PciValues == {0, 90, 23100}
\* PCI accesses a run makes at most.
MaxPciOps == 2

NoPci ==
    [fn |-> "none", offset |-> 0, byte_width |-> 0, val |-> 0,
     before |-> <<>>, status |-> None, seen |-> NoArg]

PciIdle ==
    /\ pci_space = [o \in PciOffsets |-> 17 * (o + 1)]
    /\ pci_ops = 0
    /\ lastPci = NoPci

\* A trampoline that aligns the offset to the register before the call.
PciArgsAligned(address, offset, byte_width, val) ==
    [address |-> address, offset |-> offset - (offset % 4), byte_width |-> byte_width,
     val |-> val]

\* get_kernel_api().pci_write(PCIAddress(*address), offset, byte_width, val)
\* (pci_read: the same without val): what the capability is given.
PciArgs(address, offset, byte_width, val) ==
    [address |-> address, offset |-> offset, byte_width |-> byte_width, val |-> val]

\* Byte k of a value, least significant first.
ByteOf(val, k) == (val \div (256 ^ k)) % 256

\* The value made of the bytes of space from offset on, least significant first.
RECURSIVE BytesValue(_, _, _)
BytesValue(space, offset, width) ==
    IF width = 0 THEN 0
    ELSE space[offset] + 256 * BytesValue(space, offset + 1, width - 1)

\* KernelApi::pci_read: read the containing register, select the target bytes.
CapPciRead(a) == BytesValue(pci_space, a.offset, a.byte_width)

\* KernelApi::pci_write: read the containing register, replace the target
\* bytes by the value's, write the register back.
CapPciWrite(a) ==
    [o \in PciOffsets |->
        IF o >= a.offset /\ o < a.offset + a.byte_width
        THEN ByteOf(a.val, o - a.offset)
        ELSE pci_space[o]]

\* uacpi_kernel_pci_read(address, offset, byte_width, val)
PciRead ==
    \E acc \in PciAccesses, ptr \in {"p1"}, ok \in BOOLEAN :
        LET a == PciArgs(PciDevice, acc.offset, acc.byte_width, 0)
            res == IF ok THEN CapOk(CapPciRead(a)) ELSE CapErr("InternalError")
            outcome == WithApi(OutMatch(res))
        IN /\ pci_ops < MaxPciOps
           /\ TrampolineIn("pci_read", ptr,
                           [address |-> PciDevice, offset |-> acc.offset,
                            byte_width |-> acc.byte_width, val |-> 0], a, res, outcome)
           /\ pci_ops' = pci_ops + 1
           /\ lastPci' = [fn |-> "pci_read", offset |-> acc.offset,
                          byte_width |-> acc.byte_width, val |-> 0, before |-> pci_space,
                          status |-> IF outcome.kind = "return" THEN outcome.status ELSE Panic,
                          seen |-> IF outcome.dispatched THEN a ELSE NoArg]
           /\ UNCHANGED <<pci_space, notPci>>

\* uacpi_kernel_pci_write(address, offset, byte_width, val)
PciWrite ==
    \E acc \in PciAccesses, val \in PciValues, ok \in BOOLEAN :
        LET a == PciArgs(PciDevice, acc.offset, acc.byte_width, val)
            res == IF ok THEN CapOk(0) ELSE CapErr("InternalError")
            outcome == WithApi(UnitMatch(res))
        IN /\ pci_ops < MaxPciOps
           /\ TrampolineIn("pci_write", None,
                           [address |-> PciDevice, offset |-> acc.offset,
                            byte_width |-> acc.byte_width, val |-> val], a, res, outcome)
           /\ pci_ops' = pci_ops + 1
           /\ pci_space' = IF outcome.dispatched /\ ok THEN CapPciWrite(a) ELSE pci_space
           /\ lastPci' = [fn |-> "pci_write", offset |-> acc.offset,
                          byte_width |-> acc.byte_width, val |-> val, before |-> pci_space,
                          status |-> IF outcome.kind = "return" THEN outcome.status ELSE Panic,
                          seen |-> IF outcome.dispatched THEN a ELSE NoArg]
           /\ UNCHANGED notPci

PciNext ==
    \/ set_kernel_api("apiA")
    \/ PciRead
    \/ PciWrite

(* ---------------------------------------------------------------- *)
(* Handle.                                                           *)
(* ---------------------------------------------------------------- *)
\* Width of u64 in the model. A pointer (uacpi_handle is void *) has the width
\* of u64 on x86_64 and half of it on x86, the two targets the build script
\* of uacpi-sys names.
U64Bits == 4
Targets == {"x86_64", "x86"}
PointerBits(target) == IF target = "x86_64" THEN U64Bits ELSE U64Bits \div 2
U64Values == 0 .. (2 ^ U64Bits - 1)

NoHandle == [ptr |-> -1]

HandleIdle ==
    /\ handle_target = "x86_64"
    /\ handle_kind = "none"
    /\ handle_in = 0
    /\ handle_obj = NoHandle
    /\ handle_out = -1
    /\ handle_pc = "start"

HandleInit ==
    /\ handle_target \in Targets
    /\ handle_kind \in {"new", "invalid"}
    /\ handle_in \in U64Values
    /\ handle_obj = NoHandle
    /\ handle_out = -1
    /\ handle_pc = "start"

\* `handle as _` with uacpi_handle a pointer: the value modulo 2^(pointer width)
AsPointer(value, target) == value % (2 ^ PointerBits(target))

\* pub fn new(handle: u64) -> Handle { assert_ne!(handle, 0, ..); Handle(handle as _) }
HandleNew(handle, target) ==
    IF handle = 0 THEN PanicVal ELSE [ptr |-> AsPointer(handle, target)]

\* pub fn invalid() -> Handle { Handle(0 as _) }
HandleInvalid == [ptr |-> 0]

\* pub fn as_u64(self) -> u64 { self.0 as _ }
HandleAsU64(h) == h.ptr

\* let h = Handle::new(handle_in);
CallHandleNew ==
    /\ handle_pc = "start"
    /\ handle_kind = "new"
    /\ handle_obj' = HandleNew(handle_in, handle_target)
    /\ handle_pc' = IF HandleNew(handle_in, handle_target) = PanicVal THEN "aborted" ELSE "made"
    /\ UNCHANGED <<handle_target, handle_kind, handle_in, handle_out>>

\* let h = Handle::invalid();
CallHandleInvalid ==
    /\ handle_pc = "start"
    /\ handle_kind = "invalid"
    /\ handle_obj' = HandleInvalid
    /\ handle_pc' = "made"
    /\ UNCHANGED <<handle_target, handle_kind, handle_in, handle_out>>

\* let v = h.as_u64();
CallAsU64 ==
    /\ handle_pc = "made"
    /\ handle_out' = HandleAsU64(handle_obj)
    /\ handle_pc' = "read"
    /\ UNCHANGED <<handle_target, handle_kind, handle_in, handle_obj>>

HandleNext ==
    /\ (CallHandleNew \/ CallHandleInvalid \/ CallAsU64)
    /\ UNCHANGED <<convVars, regVars, objVars, lifeVars, irqVars, workVars, syncVars,
                   allocVars, pciVars, libcVars, wrapVars, findVars, pnpVars, concVars,
                   strVars>>

(* ---------------------------------------------------------------- *)
(* The checked libc shims.                                           *)
(* ---------------------------------------------------------------- *)
\* Largest length and buffer size the engine passes.
MaxBuf == 3
Lengths == 0 .. MaxBuf
\* Source buffers of __memcpy_chk (MaxBuf bytes each).
SrcBuffers == {[i \in 1 .. MaxBuf |-> i], [i \in 1 .. MaxBuf |-> 7]}
\* What the format produces for __snprintf_chk: every prefix of "ABC...".
Formatted == {[i \in 1 .. n |-> 64 + i] : n \in Lengths}
\* What a read past the end of the formatted String may find.
StrayBytes == {0, 255}

NoLibc ==
    [fn |-> "none", len |-> 0, dest_len |-> 0, max_len |-> 0, src |-> <<>>,
     panicked |-> FALSE, written |-> <<>>, ret_ptr |-> None, ret_len |-> -1]

LibcIdle == lastLibc = NoLibc

\* if dest_len < len { panic!("Buffer overflow in __memcpy_chk") }
MemcpyOverflows(len, dest_len) == dest_len < len

\* __memcpy_chk(dst, src, len, dest_len): the panic, or the len bytes
\* copy_nonoverlapping(src, dst, len) writes to dst, and dst returned.
memcpy_chk ==
    \E len \in Lengths, dest_len \in Lengths, src \in SrcBuffers :
        /\ lastLibc = NoLibc
        /\ lastLibc' =
              IF MemcpyOverflows(len, dest_len)
              THEN [fn |-> "__memcpy_chk", len |-> len, dest_len |-> dest_len, max_len |-> 0,
                    src |-> src, panicked |-> TRUE, written |-> <<>>, ret_ptr |-> None,
                    ret_len |-> -1]
              ELSE [fn |-> "__memcpy_chk", len |-> len, dest_len |-> dest_len, max_len |-> 0,
                    src |-> src, panicked |-> FALSE, written |-> SubSeq(src, 1, len),
                    ret_ptr |-> "dst", ret_len |-> -1]

\* if max_len < len { panic!("Buffer overflow in __snprintf_chk") }
\* with max_len the second parameter (the most the caller asks to write) and
\* len the fourth (the size of the destination buffer).
SnprintfOverflows(max_len, len) == max_len < len

\* __snprintf_chk(s, max_len, _flags, len, fmt, ...): the panic, or the max_len
\* bytes copy_nonoverlapping(out.as_ptr(), s, max_len) writes to s (past the
\* end of `out` it reads what follows the String in memory), and the
\* formatted length returned.
snprintf_chk ==
    \E max_len \in Lengths, len \in Lengths, out \in Formatted, stray \in StrayBytes :
        /\ lastLibc = NoLibc
        /\ lastLibc' =
              IF SnprintfOverflows(max_len, len)
              THEN [fn |-> "__snprintf_chk", len |-> len, dest_len |-> len,
                    max_len |-> max_len, src |-> out, panicked |-> TRUE,
                    written |-> <<>>, ret_ptr |-> None, ret_len |-> -1]
              ELSE [fn |-> "__snprintf_chk", len |-> len, dest_len |-> len,
                    max_len |-> max_len, src |-> out, panicked |-> FALSE,
                    written |-> [i \in 1 .. max_len |->
                                    IF i <= Len(out) THEN out[i] ELSE stray],
                    ret_ptr |-> None, ret_len |-> Len(out)]

LibcNext ==
    /\ (memcpy_chk \/ snprintf_chk)
    /\ UNCHANGED <<convVars, regVars, objVars, lifeVars, irqVars, workVars, syncVars,
                   allocVars, pciVars, handleVars, wrapVars, findVars, pnpVars, concVars,
                   strVars>>

(* ---------------------------------------------------------------- *)
(* The fallible typed wrappers.                                      *)
(* ---------------------------------------------------------------- *)
\* Wrappers that return Result<(), Status>.
UnitWrappers ==
    {"init", "namespace_load", "namespace_initialize", "prepare_for_sleep", "enter_sleep",
     "prepare_for_wake_from_sleep", "wake_from_sleep", "reboot", "find_devices",
     "find_devices_at", "set_interrupt_model"}
\* Wrappers that pass the engine a slot for its output and wrap what it holds.
OutputWrappers == {"eval", "table_find_by_signature", "table_fadt", "eval_hid"}

\* What the engine can put in an output slot (a pointer, a table record).
EngineOutputs == {1, 2}
\* What memory nobody wrote, or a half-written output, holds.
Garbage == 7
\* No value: the () of the unit wrappers, the absent payload of an Err.
NoValue == -1

\* The slot before the engine call: core::ptr::null_mut(), or
\* MaybeUninit::uninit() in table_find_by_signature.
InitialSlot(fn) == IF fn = "table_find_by_signature" THEN Garbage ELSE NullPtr

NoWrap ==
    [fn |-> "none", code |-> 0, produced |-> NoValue, slot |-> NullPtr, ok |-> FALSE,
     err |-> None, val |-> NoValue]

WrapIdle == lastWrap = NoWrap

\* An engine entry point with an output parameter: with OK the output is in
\* the slot; with any other status no output is produced, and the slot is as
\* it was or half written.
EngineWithOutput(fn) ==
    {[status |-> UACPI_STATUS_OK, produced |-> v, slot |-> v] : v \in EngineOutputs}
        \cup {[status |-> c, produced |-> NoValue, slot |-> g] :
                 c \in EngineStatusCodes \ {UACPI_STATUS_OK},
                 g \in {InitialSlot(fn), Garbage}}

\* An engine entry point without one.
EngineWithoutOutput(fn) ==
    {[status |-> c, produced |-> NoValue, slot |-> NullPtr] : c \in EngineStatusCodes}

\* A match that wraps the slot whenever it is not null.
TypedResultFromSlot(status, payload) ==
    IF payload # NullPtr
    THEN [ok |-> TRUE, err |-> None, val |-> payload]
    ELSE [ok |-> FALSE, err |-> StatusFrom(status), val |-> NoValue]

\* let status: Status = raw.into();
\* match status { Status::Ok => Ok(payload), _ => Err(status) }
TypedResult(status, payload) ==
    IF StatusFrom(status) = "Ok"
    THEN [ok |-> TRUE, err |-> None, val |-> payload]
    ELSE [ok |-> FALSE, err |-> StatusFrom(status), val |-> NoValue]

WrapperCall(fn, e, r) ==
    /\ lastWrap' = [fn |-> fn, code |-> e.status, produced |-> e.produced, slot |-> e.slot,
                    ok |-> r.ok, err |-> r.err, val |-> r.val]
    /\ UNCHANGED <<convVars, regVars, objVars, lifeVars, irqVars, workVars, syncVars,
                   allocVars, pciVars, handleVars, libcVars, findVars, pnpVars, concVars,
                   strVars>>

\* init, namespace_load, namespace_initialize, prepare_for_sleep, enter_sleep,
\* prepare_for_wake_from_sleep, wake_from_sleep, reboot, find_devices,
\* find_devices_at, set_interrupt_model: Ok(()) or Err(status)
UnitWrapper ==
    \E fn \in UnitWrappers : \E e \in EngineWithoutOutput(fn) :
        WrapperCall(fn, e, TypedResult(e.status, NoValue))

\* eval, table_find_by_signature, table_fadt, eval_hid: Ok(wrapped slot) or
\* Err(status)
OutputWrapper ==
    \E fn \in OutputWrappers : \E e \in EngineWithOutput(fn) :
        WrapperCall(fn, e, TypedResult(e.status, e.slot))

WrapNext ==
    \/ UnitWrapper
    \/ OutputWrapper

(* ---------------------------------------------------------------- *)
(* Namespace iteration: find_devices / find_devices_at.              *)
(* ---------------------------------------------------------------- *)
\* Addresses: 0 .. MaxAddr; the engine's nodes live at 1, 2 and 3.
MaxAddr == 3
Addrs == 0 .. MaxAddr
\* The matching devices: 2 is the child of 1, 3 is the peer of 1.
Nodes == {1, 2, 3}
FirstNode == 1
NodeAfter(n) == IF n = 3 THEN 0 ELSE n + 1
PeerAfter(n) == IF n = 1 THEN 3 ELSE 0

NsIterDecisions == {"Continue", "NextPeer", "Break"}

\* #[repr(C)] enum NsIterDecision { Continue, NextPeer, Break } cast with `as _`
DecisionAsEngine(d) ==
    CASE d = "Continue" -> 0
      [] d = "NextPeer" -> 1
      [] d = "Break" -> 2

\* The wrapper has not returned.
NoResult == [ok |-> FALSE, err |-> "pending"]

FindIdle ==
    /\ find_mem = [a \in Addrs |-> 0]
    /\ find_fn = "none"
    /\ find_pc = "idle"
    /\ find_next = 0
    /\ find_log = <<>>
    /\ find_res = NoResult

\* The engine's node structures and the rest of memory hold any words.
FindInit ==
    /\ find_mem \in [Addrs -> Addrs]
    /\ find_fn = "none"
    /\ find_pc = "idle"
    /\ find_next = 0
    /\ find_log = <<>>
    /\ find_res = NoResult

\* The argument the visitor gets, (node as *mut &NamespaceNode) read through:
\* the word at `node` taken as the reference.
VisitorArg(node) == find_mem[node]

\* The pointer inside the NamespaceNode the visitor's reference leads to.
SeenPointer(node) == find_mem[VisitorArg(node)]

\* The engine's traversal after a decision: on with the next node, on with
\* the next peer, or over.
EngineAfter(n, handed) ==
    CASE handed = 0 -> NodeAfter(n)
      [] handed = 1 -> PeerAfter(n)
      [] OTHER -> 0

FindStart(fn) ==
    /\ find_pc = "idle"
    /\ find_fn' = fn
    /\ find_pc' = "walking"
    /\ find_next' = FirstNode
    /\ UNCHANGED <<find_mem, find_log, find_res>>

\* pub fn find_devices(hid, cb): uacpi_find_devices(.., Some(uacpi_iter_cb::<F>), &cb)
find_devices == FindStart("find_devices")

\* pub fn find_devices_at(parent, hids, cb)
find_devices_at == FindStart("find_devices_at")

\* unsafe extern "C" fn uacpi_iter_cb(user, node): (*f)(*(node as *mut _)) as _
uacpi_iter_cb ==
    \E d \in NsIterDecisions :
        /\ find_pc = "walking"
        /\ find_next # 0
        /\ find_log' = Append(find_log,
                              [node |-> find_next, seen |-> SeenPointer(find_next),
                               decision |-> d, handed |-> DecisionAsEngine(d)])
        /\ find_next' = EngineAfter(find_next, DecisionAsEngine(d))
        /\ UNCHANGED <<find_mem, find_fn, find_pc, find_res>>

\* The engine is done and returns its status; the wrapper maps it.
FindReturn ==
    \E status \in {UACPI_STATUS_OK, UACPI_STATUS_NOT_FOUND} :
        /\ find_pc = "walking"
        /\ find_next = 0
        /\ find_pc' = "returned"
        /\ find_res' = ResultOf(status)
        /\ UNCHANGED <<find_mem, find_fn, find_next, find_log>>

FindNext ==
    /\ (find_devices \/ find_devices_at \/ uacpi_iter_cb \/ FindReturn)
    /\ UNCHANGED <<convVars, regVars, objVars, lifeVars, irqVars, workVars, syncVars,
                   allocVars, pciVars, handleVars, libcVars, wrapVars, pnpVars, concVars,
                   strVars>>

(* ---------------------------------------------------------------- *)
(* Identifier lists: device_matches_pnp_id / find_devices_at.        *)
(* ---------------------------------------------------------------- *)
\* Identifiers a caller passes at most.
MaxIds == 3
PnpIds == {"PNP0A03", "PNP0A08", "ACPI0003"}
\* The lists a caller can pass, the empty one included.
IdLists == UNION {[1 .. n -> PnpIds] : n \in 0 .. MaxIds}

\* CStr::as_ptr(): where the identifier's bytes are; never null.
StrAsPtr(id) ==
    CASE id = "PNP0A03" -> 1
      [] id = "PNP0A08" -> 2
      [] id = "ACPI0003" -> 3

NoSeen == [array |-> <<>>, live |-> FALSE]

PnpIdle ==
    /\ pnp_fn = "none"
    /\ pnp_list = <<>>
    /\ pnp_vec = <<>>
    /\ pnp_live = FALSE
    /\ pnp_pc = "idle"
    /\ pnp_seen = NoSeen

\* A Vec without the terminator.
MarshalIdsUnterminated(list) == [i \in 1 .. Len(list) |-> StrAsPtr(list[i])]

\* let mut vec: Vec<_> = list.iter().map(|str| str.as_ptr()).collect();
\* vec.push(core::ptr::null());
MarshalIds(list) == Append([i \in 1 .. Len(list) |-> StrAsPtr(list[i])], NullPtr)

\* The wrapper is entered and builds its Vec.
PnpBuild(fn) ==
    \E list \in IdLists :
        /\ pnp_pc = "idle"
        /\ pnp_fn' = fn
        /\ pnp_list' = list
        /\ pnp_vec' = MarshalIds(list)
        /\ pnp_live' = TRUE
        /\ pnp_pc' = "built"
        /\ UNCHANGED pnp_seen

\* pub fn device_matches_pnp_id(node, list)
device_matches_pnp_id == PnpBuild("device_matches_pnp_id")

\* pub fn find_devices_at(parent, hids, cb)
find_devices_at_ids == PnpBuild("find_devices_at")

\* uacpi_device_matches_pnp_id(node.0, vec.as_ptr()) /
\* uacpi_find_devices_at(parent.0, vec.as_ptr(), ..): the engine has the pointer
\* and reads what is behind it.
PnpEngineCall ==
    /\ pnp_pc = "built"
    /\ pnp_pc' = "in_engine"
    /\ pnp_seen' = [array |-> pnp_vec, live |-> pnp_live]
    /\ UNCHANGED <<pnp_fn, pnp_list, pnp_vec, pnp_live>>

\* The engine returns; at the end of the wrapper's body vec is dropped.
PnpReturn ==
    /\ pnp_pc = "in_engine"
    /\ pnp_pc' = "returned"
    /\ pnp_live' = FALSE
    /\ pnp_vec' = <<>>
    /\ UNCHANGED <<pnp_fn, pnp_list, pnp_seen>>

PnpNext ==
    /\ (device_matches_pnp_id \/ find_devices_at_ids \/ PnpEngineCall \/ PnpReturn)
    /\ UNCHANGED <<convVars, regVars, objVars, lifeVars, irqVars, workVars, syncVars,
                   allocVars, pciVars, handleVars, libcVars, wrapVars, findVars, concVars,
                   strVars>>

(* ---------------------------------------------------------------- *)
(* The registry read from concurrent call paths.                     *)
(* ---------------------------------------------------------------- *)
\* Call paths that run at once: foreground evaluation, interrupt work.
Threads == {"foreground", "interrupt"}

ConcIdle ==
    /\ reg_write = None
    /\ conc_pc = [t \in Threads |-> "idle"]
    /\ conc_got = [t \in Threads |-> None]

\* What a read of KERNEL_API gives: its content, or, while a store of another
\* value to the unsynchronized static is in progress, the old content, the new
\* one, or a mix of the two.
RegistryRead ==
    IF reg_write = None \/ reg_write = KERNEL_API
    THEN {KERNEL_API}
    ELSE {KERNEL_API, reg_write, "torn"}

\* KERNEL_API.as_ref().expect("No kernel api set").clone() on what was read
GetResult(read) == IF read = None THEN Panic ELSE read

\* set_kernel_api(api) starts: the store to the static mut begins.
set_kernel_api_begin(api) ==
    /\ reg_write = None
    /\ setCalls < MaxSetCalls
    /\ reg_write' = api
    /\ UNCHANGED <<conc_pc, conc_got, regVars>>

\* The store is done and set_kernel_api returns.
set_kernel_api_end ==
    /\ reg_write # None
    /\ KERNEL_API' = reg_write
    /\ setCalls' = setCalls + 1
    /\ firstApi' = IF setCalls = 0 THEN reg_write ELSE firstApi
    /\ reg_write' = None
    /\ UNCHANGED <<conc_pc, conc_got, process, overflow_checks, mem, ret, lastCall,
                   lastInput>>

\* A call path, once a set_kernel_api has completed, calls get_kernel_api().
get_kernel_api_from(t) ==
    /\ setCalls > 0
    /\ conc_pc[t] = "idle"
    /\ \E read \in RegistryRead :
          conc_got' = [conc_got EXCEPT ![t] = GetResult(read)]
    /\ conc_pc' = [conc_pc EXCEPT ![t] = "got"]
    /\ UNCHANGED <<reg_write, regVars>>

\* The call path is done with the reference and goes on.
ThreadContinue(t) ==
    /\ conc_pc[t] = "got"
    /\ conc_pc' = [conc_pc EXCEPT ![t] = "idle"]
    /\ UNCHANGED <<conc_got, reg_write, regVars>>

ConcNext ==
    /\ \/ \E api \in Apis : set_kernel_api_begin(api)
       \/ set_kernel_api_end
       \/ \E t \in Threads : get_kernel_api_from(t)
       \/ \E t \in Threads : ThreadContinue(t)
    /\ UNCHANGED <<convVars, objVars, lifeVars, irqVars, workVars, syncVars,
                   allocVars, pciVars, handleVars, libcVars, wrapVars, findVars, pnpVars,
                   strVars>>

(* ---------------------------------------------------------------- *)
(* The bounded C string shims.                                       *)
(* ---------------------------------------------------------------- *)
\* Width of c_char in the model (i8 in the code): CHAR_MIN .. CHAR_MAX.
CharBits == 3
CHAR_MAX == 2 ^ (CharBits - 1) - 1
CHAR_MIN == -(2 ^ (CharBits - 1))
\* Bytes a string holds: the terminator, the extremes, and one in between.
Chars == {0, 1, CHAR_MAX, CHAR_MIN}
\* Size of the buffers the engine passes; bounds are 0 .. MaxStr.
MaxStr == 2
StrBuffers == [0 .. MaxStr - 1 -> Chars]
StrBounds == 0 .. MaxStr

NoStr ==
    [fn |-> "none", s1 |-> <<>>, s2 |-> <<>>, n |-> 0, ret |-> -1, reads |-> 0,
     panicked |-> FALSE]

StrIdle == lastStr = NoStr

\* *s.add(i): the byte of the buffer, or past its end whatever is there.
CharAt(s, i, stray) == IF i < MaxStr THEN s[i] ELSE stray

\* a - b in c_char: outside the type it panics in a build that checks
\* overflow, and wraps otherwise.
SubOverflows(a, b) == a - b > CHAR_MAX \/ a - b < CHAR_MIN
WrapChar(d) == ((d - CHAR_MIN) % (2 ^ CharBits)) + CHAR_MIN

\* val as usize: sign-extended.
CharAsUsize(v) == IF v >= 0 THEN v ELSE USIZE_MAX + 1 + v

\* strncmp: for i in 0..n { val = *s1_i - *s2_i;
\*                          if val != 0 || *s1_i == 0 { return val as usize } } 0
\* `reads` counts the indices read: 0 .. reads - 1.
RECURSIVE StrncmpFrom(_, _, _, _)
StrncmpFrom(s1, s2, n, i) ==
    IF i >= n THEN [ret |-> 0, reads |-> i, panicked |-> FALSE]
    ELSE IF SubOverflows(s1[i], s2[i]) /\ overflow_checks
         THEN [ret |-> -1, reads |-> i + 1, panicked |-> TRUE]
    ELSE LET val == WrapChar(s1[i] - s2[i]) IN
         IF val # 0 \/ s1[i] = 0
         THEN [ret |-> CharAsUsize(val), reads |-> i + 1, panicked |-> FALSE]
         ELSE StrncmpFrom(s1, s2, n, i + 1)

\* strnlen: while *s != 0 && result < max_len { s = s.add(1); result += 1 } result
\* Each test of the condition reads *s first: index `result`.
RECURSIVE StrnlenFrom(_, _, _, _)
StrnlenFrom(s, max_len, result, stray) ==
    IF CharAt(s, result, stray) # 0 /\ result < max_len
    THEN StrnlenFrom(s, max_len, result + 1, stray)
    ELSE [ret |-> result, reads |-> result + 1, panicked |-> FALSE]

strncmp ==
    \E s1 \in StrBuffers, s2 \in StrBuffers, n \in StrBounds :
        LET r == StrncmpFrom(s1, s2, n, 0) IN
        /\ lastStr = NoStr
        /\ lastStr' = [fn |-> "strncmp", s1 |-> s1, s2 |-> s2, n |-> n, ret |-> r.ret,
                       reads |-> r.reads, panicked |-> r.panicked]

strnlen ==
    \E s \in StrBuffers, max_len \in StrBounds, stray \in Chars :
        LET r == StrnlenFrom(s, max_len, 0, stray) IN
        /\ lastStr = NoStr
        /\ lastStr' = [fn |-> "strnlen", s1 |-> s, s2 |-> <<>>, n |-> max_len,
                       ret |-> r.ret, reads |-> r.reads, panicked |-> r.panicked]

StrNext ==
    /\ (strncmp \/ strnlen)
    /\ UNCHANGED <<convVars, regVars, objVars, lifeVars, irqVars, workVars, syncVars,
                   allocVars, pciVars, handleVars, libcVars, wrapVars, findVars, pnpVars,
                   concVars>>

HostIdle ==
    /\ IrqIdle /\ WorkIdle /\ SyncIdle /\ AllocIdle /\ PciIdle /\ HandleIdle
    /\ LibcIdle /\ WrapIdle /\ FindIdle /\ PnpIdle /\ ConcIdle /\ StrIdle

(* ---------------------------------------------------------------- *)
(* Specifications.                                                   *)
(* ---------------------------------------------------------------- *)
Init == ConvIdle /\ RegInit /\ ObjInit /\ LifeInit /\ HostIdle

Next ==
    \/ \E api \in Apis : set_kernel_api(api)
    \/ uacpi_kernel_raw_memory_read
    \/ uacpi_kernel_raw_io_read
    \/ uacpi_kernel_pci_read
    \/ uacpi_kernel_io_map
    \/ uacpi_kernel_io_read
    \/ uacpi_kernel_install_interrupt_handler
    \/ uacpi_kernel_alloc
    \/ uacpi_kernel_calloc
    \/ uacpi_kernel_free
    \/ uacpi_kernel_log
    \/ uacpi_kernel_handle_firmware_request

\* The registry and the trampolines, called by the engine in any order.
Spec == Init /\ [][Next]_vars

ConvNext ==
    \/ ConvertStatus
    \/ StatusToNumeric
    \/ ConvertInitLevel
    \/ ConvertWorkType

\* The conversions, each applied to one drawn numeric input.
ConvSpecInit == ConvInit /\ RegIdle /\ ObjInit /\ LifeInit /\ HostIdle

SpecConv == ConvSpecInit /\ [][ConvNext]_vars

\* Ownership: objects made, iterated and dropped by host code in any order.
ObjSpecInit == ConvIdle /\ RegIdle /\ ObjInit /\ LifeInit /\ HostIdle

SpecObject == ObjSpecInit /\ [][ObjNext]_vars

\* Accessors: objects of every type made and probed by host code.
AccessSpecInit == ConvIdle /\ RegIdle /\ ObjInit /\ LifeInit /\ HostIdle

SpecAccess == AccessSpecInit /\ [][AccessNext]_vars

\* The lifecycle entry points and the level query, called in any order.
LifeSpecInit == ConvIdle /\ RegIdle /\ ObjInit /\ LifeInit /\ HostIdle

SpecLifecycle == LifeSpecInit /\ [][LifeNext]_vars

\* Interrupts: handlers installed, fired and uninstalled in any order.
IrqSpecInit == ConvIdle /\ RegIdle /\ ObjInit /\ LifeInit /\ HostIdle

SpecIrq == IrqSpecInit /\ [][IrqNext]_vars

\* Deferred work: scheduled from interrupt context, run by the capability's
\* worker, awaited from normal context. The capability's contract is that
\* queued work is run and that a wait returns once the queue is empty.
WorkSpecInit == ConvIdle /\ RegIdle /\ ObjInit /\ LifeInit /\ HostIdle

SpecWork ==
    WorkSpecInit /\ [][WorkNext]_vars /\ WF_vars(RunWork) /\ WF_vars(WaitReturn)

\* Mutex and event calls from several threads, at most one of them blocked.
SyncSpecInit == ConvIdle /\ RegIdle /\ ObjInit /\ LifeInit /\ HostIdle

SpecSync == SyncSpecInit /\ [][SyncNext]_vars

\* Allocation: a capability that keeps the trait's default alloc / dealloc.
AllocSpecInit == ConvIdle /\ RegBuild /\ ObjInit /\ LifeInit /\ HostIdle

SpecAlloc == AllocSpecInit /\ [][AllocNext]_vars

\* PCI accesses against a capability with a byte-wise backing store.
PciSpecInit == ConvIdle /\ RegIdle /\ ObjInit /\ LifeInit /\ HostIdle

SpecPci == PciSpecInit /\ [][PciNext]_vars

\* Handles made from every u64 value, on both targets, and read back.
HandleSpecInit ==
    ConvIdle /\ RegIdle /\ ObjInit /\ LifeInit /\ IrqIdle /\ WorkIdle /\ SyncIdle /\ AllocIdle
        /\ PciIdle /\ HandleInit /\ LibcIdle /\ WrapIdle /\ FindIdle /\ PnpIdle /\ ConcIdle
        /\ StrIdle

SpecHandle == HandleSpecInit /\ [][HandleNext]_vars

\* One call of a checked libc shim, with every pair of lengths.
LibcSpecInit == ConvIdle /\ RegIdle /\ ObjInit /\ LifeInit /\ HostIdle

SpecLibc == LibcSpecInit /\ [][LibcNext]_vars

\* The typed wrappers, each over every status the engine can return.
WrapSpecInit == ConvIdle /\ RegIdle /\ ObjInit /\ LifeInit /\ HostIdle

SpecWrap == WrapSpecInit /\ [][WrapNext]_vars

\* One traversal, over every content of the memory the callback reads.
FindSpecInit ==
    ConvIdle /\ RegIdle /\ ObjInit /\ LifeInit /\ IrqIdle /\ WorkIdle /\ SyncIdle /\ AllocIdle
        /\ PciIdle /\ HandleIdle /\ LibcIdle /\ WrapIdle /\ FindInit /\ PnpIdle /\ ConcIdle
        /\ StrIdle

SpecFind == FindSpecInit /\ [][FindNext]_vars

\* One call of a wrapper that passes a list of identifiers.
PnpSpecInit == ConvIdle /\ RegIdle /\ ObjInit /\ LifeInit /\ HostIdle

SpecPnp == PnpSpecInit /\ [][PnpNext]_vars

\* set_kernel_api and get_kernel_api from call paths that run at once.
ConcSpecInit == ConvIdle /\ RegIdle /\ ObjInit /\ LifeInit /\ HostIdle

SpecConc == ConcSpecInit /\ [][ConcNext]_vars

\* One call of a bounded string shim, in a build with or without overflow checks.
StrSpecInit == ConvIdle /\ RegBuild /\ ObjInit /\ LifeInit /\ HostIdle

SpecStr == StrSpecInit /\ [][StrNext]_vars

(* ---------------------------------------------------------------- *)
(* Status conversion.                                                *)
(* ---------------------------------------------------------------- *)
\* C1: for every numeric status the engine defines (0..17 and the AML family),
\* converting it to Status does not panic and converting the variant back to
\* its number gives the number converted; and a conversion that yields
\* Status::Ok was given the engine's OK code.
C1_StatusRoundTrip ==
    conv_kind = "status" =>
        /\ (conv_raw \in EngineStatusCodes /\ conv_pc # "start") => conv_typed \in Status
        /\ (conv_raw \in EngineStatusCodes /\ conv_pc = "back") => conv_back = conv_raw
        /\ conv_typed = "Ok" => conv_raw = UACPI_STATUS_OK

\* An AML-family code went through both conversions.
C1_Witness ==
    /\ conv_kind = "status"
    /\ conv_pc = "back"
    /\ conv_raw = UACPI_STATUS_AML_LOOP_TIMEOUT
    /\ conv_typed = "AmlLoopTimeout"
    /\ conv_back = UACPI_STATUS_AML_LOOP_TIMEOUT

\* C2: converting a number that is not a defined status code panics: the
\* conversion yields no Status value (so never Status::Ok) and the run ends
\* aborted. The same for an undefined init level and an undefined work type.
C2_UndefinedCodeAborts ==
    conv_pc # "start" =>
        /\ (conv_kind = "status" /\ conv_raw \notin EngineStatusCodes)
              => (conv_typed = Panic /\ conv_pc = "aborted")
        /\ (conv_kind = "init_level"
              /\ conv_raw \notin UACPI_INIT_LEVEL_EARLY .. UACPI_INIT_LEVEL_NAMESPACE_INITIALIZED)
              => (conv_typed = Panic /\ conv_pc = "aborted")
        /\ (conv_kind = "work_type"
              /\ conv_raw \notin {UACPI_WORK_GPE_EXECUTION, UACPI_WORK_NOTIFICATION})
              => (conv_typed = Panic /\ conv_pc = "aborted")

\* The first number after the structural family was converted, and panicked.
C2_Witness ==
    /\ conv_kind = "status"
    /\ conv_raw = UACPI_STATUS_HARDWARE_TIMEOUT + 1
    /\ conv_pc = "aborted"
    /\ conv_typed = Panic

(* ---------------------------------------------------------------- *)
(* Registry and trampolines.                                         *)
(* ---------------------------------------------------------------- *)
\* C3: a trampoline that consults the registry while no capability has been
\* registered panics: the process is aborted, no capability object was
\* dispatched to, and the registry is still empty (no default was made).
C3_GetBeforeSetPanics ==
    (lastCall.asked /\ lastCall.registry = None) =>
        /\ process = "aborted"
        /\ lastCall.panicked
        /\ lastCall.dispatched = None
        /\ KERNEL_API = None

\* A trampoline was called on the empty registry.
C3_Witness ==
    /\ lastCall.fn = "raw_memory_read"
    /\ lastCall.asked
    /\ lastCall.registry = None
    /\ process = "aborted"

\* C4: a second set_kernel_api call, after a first one stored a capability,
\* fails fast and leaves the first registered capability in the registry.
C4_SecondSetFailsFast ==
    setCalls >= 2 => (process = "aborted" /\ KERNEL_API = firstApi)

OutFns ==
    {"raw_memory_read", "raw_io_read", "pci_read", "io_read", "io_map",
     "install_interrupt_handler"}

\* C5: after a trampoline with an output pointer whose capability call
\* returned Ok(v), the output location holds v and the return slot holds
\* Status::Ok; after one whose capability call returned Err(s), the return slot
\* holds s and the output location holds what it held before the call.
C5_OutputOnlyOnSuccess ==
    lastCall.fn \in OutFns =>
        /\ lastCall.res.tag = "Ok" =>
              (mem[lastCall.ptr] = lastCall.res.val /\ ret = "Ok" /\ process = "running")
        /\ lastCall.res.tag = "Err" =>
              (mem[lastCall.ptr] = lastCall.before /\ ret = lastCall.res.status
                 /\ process = "running")

\* io_map failed with MappingFailed on a location that held a nonzero value.
C5_Witness ==
    /\ lastCall.fn = "io_map"
    /\ lastCall.res = CapErr("MappingFailed")
    /\ lastCall.before = 1
    /\ mem[lastCall.ptr] = 1
    /\ ret = "MappingFailed"

PackageRefs(o) ==
    Cardinality({pi \in ObjIds \X (1 .. MaxObjects) :
                    /\ heap[pi[1]].state = "live"
                    /\ pi[2] <= Len(heap[pi[1]].children)
                    /\ heap[pi[1]].children[pi[2]] = o})

\* C7: every wrapper accounts for one engine reference: for each object the
\* unref calls made by dropped wrappers never exceed the references wrappers
\* acquired on it, its refcount is never below the references the engine's
\* packages hold on it, and it is not released while a wrapper or a live
\* package still refers to it (so no object is used after its release).
C7_WrapperRefsBalanced ==
    /\ ~heapUB
    /\ \A o \in ObjIds :
          /\ unrefs[o] <= acquired[o]
          /\ heap[o].state = "live" => heap[o].rc >= PackageRefs(o)
          /\ heap[o].state = "released" => (Wrappers(o) = 0 /\ PackageRefs(o) = 0)

\* C8: the iterator get_package returns yields the package's objects in index
\* order, one per call of next, count of them in all; and once it is consumed
\* and every yielded item dropped, with nothing else done to the objects since
\* get_package, every object's refcount is what it was at get_package.
C8_PackageIterationNonOwning ==
    (iter # NoIter /\ snap.pure) =>
        /\ iter.count = Len(heap[iter.pkg].children)
        /\ yielded = SubSeq(heap[iter.pkg].children, 1, iter.idx)
        /\ (iter.idx = iter.count /\ \A o \in ObjIds : borrowed[o] = 0) =>
              \A o \in ObjIds : heap[o].rc = snap.rc[o]

AccessorType(fn) ==
    CASE fn = "get_int" -> UACPI_OBJECT_INTEGER
      [] fn = "get_buffer" -> UACPI_OBJECT_BUFFER
      [] fn = "get_string" -> UACPI_OBJECT_STRING
      [] fn = "get_package" -> UACPI_OBJECT_PACKAGE

\* C9: an accessor called on an object whose type tag is not the accessor's
\* type returned None (and did not panic); and get_int on an object made by
\* new_int(v) returned Some(v).
C9_AccessorsPartial ==
    lastAccess.fn # "none" =>
        /\ lastAccess.result # PanicVal
        /\ lastAccess.tag # AccessorType(lastAccess.fn) => lastAccess.result = NoneVal
        /\ (lastAccess.fn = "get_int" /\ newIntArg[lastAccess.obj] # -1) =>
              lastAccess.result = SomeVal(newIntArg[lastAccess.obj])

\* get_int was called on an object made by new_int(42), after get_int on a
\* buffer had been possible too.
C9_Witness ==
    /\ lastAccess.fn = "get_int"
    /\ newIntArg[lastAccess.obj] = 42
    /\ lastAccess.result = SomeVal(42)
    /\ \E o \in ObjIds : heap[o].type = UACPI_OBJECT_BUFFER

(* ---------------------------------------------------------------- *)
(* Lifecycle.                                                        *)
(* ---------------------------------------------------------------- *)
\* The level get_current_init_level reads once fn was the last call to succeed.
LevelAfter(fn) ==
    CASE fn = "none" -> "Early"
      [] fn = "init" -> "SubsystemInitialized"
      [] fn = "namespace_load" -> "NamespaceLoaded"
      [] fn = "namespace_initialize" -> "NamespaceInitialized"

LevelRank(l) ==
    CASE l = "Early" -> 0
      [] l = "SubsystemInitialized" -> 1
      [] l = "NamespaceLoaded" -> 2
      [] l = "NamespaceInitialized" -> 3
      [] OTHER -> -1

\* C10: a lifecycle call that returns Ok was made at its required level and
\* moved the level up by exactly one; a call made at another level returned
\* Err(InitLevelMismatch) and left the level alone; no call lowers the level
\* or moves it by more than one; and get_current_init_level reads Early before
\* any success, SubsystemInitialized after init, NamespaceLoaded after
\* namespace_load and NamespaceInitialized after namespace_initialize, so the
\* levels read never go down.
C10_LevelsInOrder ==
    /\ lastLife.fn # "none" =>
          /\ init_level \in {lastLife.before, lastLife.before + 1}
          /\ lastLife.ok <=> init_level = lastLife.before + 1
          /\ lastLife.ok => lastLife.before = RequiredLevel(lastLife.fn)
          /\ lastLife.before # RequiredLevel(lastLife.fn) =>
                (~lastLife.ok /\ lastLife.err = "InitLevelMismatch"
                   /\ init_level = lastLife.before)
    /\ \A i \in 1 .. Len(observed) :
          /\ observed[i].level = LevelAfter(observed[i].after)
          /\ i > 1 => LevelRank(observed[i - 1].level) <= LevelRank(observed[i].level)

\* The three levels were read one after the other, each after its call.
C10_Witness ==
    /\ Len(observed) = 3
    /\ observed[1].level = "SubsystemInitialized"
    /\ observed[2].level = "NamespaceLoaded"
    /\ observed[3].level = "NamespaceInitialized"
    /\ lastLife.fn = "namespace_initialize"
    /\ lastLife.ok
(* ---------------------------------------------------------------- *)
(* Interrupts, deferred work, synchronisation.                       *)
(* ---------------------------------------------------------------- *)
\* How often the call [h, c] occurs in a sequence of engine-handler calls.
Occurrences(calls, h, c) ==
    Cardinality({i \in 1 .. Len(calls) : calls[i] = [h |-> h, c |-> c]})

\* C11: at every simulated interrupt on a line, each engine handler h with
\* context c that the engine installed for that line through the install
\* trampoline (it returned Ok) and has not uninstalled since is invoked exactly
\* once with exactly c, and nothing else is invoked: a handler whose uninstall
\* returned Ok is invoked no more.
C11_InterruptInvokesInstalled ==
    \A i \in 1 .. Len(irq_log) :
        \A h \in EngineHandlers, c \in Contexts \cup {0} :
            Occurrences(irq_log[i].invoked, h, c) =
                Cardinality({v \in irq_log[i].view :
                                v.irq = irq_log[i].irq /\ v.h = h /\ v.c = c})

\* IRQ 9 fired once on an installed handler, which ran once with its context;
\* after its uninstall returned Ok the line fired again and nothing ran.
C11_Witness ==
    /\ Len(irq_log) = 2
    /\ irq_log[1].irq = 9
    /\ irq_log[1].invoked = <<[h |-> "h1", c |-> 2]>>
    /\ irq_log[2].irq = 9
    /\ irq_log[2].invoked = <<>>
    /\ lastCall.fn = "uninstall_interrupt_handler"
    /\ ret = "Ok"

\* How often an item occurs in a sequence of scheduled items.
Scheduled(view, item) == Cardinality({i \in 1 .. Len(view) : view[i] = item})

C13_TimeoutSentinels ==
    lastSync.fn # "none" =>
        /\ lastSync.seen = lastSync.timeout
        /\ lastSync.returned = lastSync.result
        /\ lastSync.returned => lastSync.avail
        /\ lastSync.timeout = TIMEOUT_INFINITE => lastSync.returned
        /\ lastSync.timeout = 0 =>
              (~lastSync.blocked /\ (~lastSync.avail => ~lastSync.returned))

\* An acquire with timeout 0xFFFF blocked on the held mutex and returned true
\* after the release.
C13_Witness ==
    /\ lastSync.fn = "acquire_mutex"
    /\ lastSync.timeout = TIMEOUT_INFINITE
    /\ lastSync.blocked
    /\ lastSync.returned
    /\ mutex_held

(* ---------------------------------------------------------------- *)
(* Allocation.                                                       *)
(* ---------------------------------------------------------------- *)
\* C14: a block returned by uacpi_kernel_alloc or uacpi_kernel_calloc through
\* the default KernelApi::alloc reads as 0 in every byte, and the block
\* uacpi_kernel_calloc(count, size) returns has exactly count * size bytes.
C14_AllocationZeroed ==
    (lastAlloc.fn # "none" /\ lastAlloc.ptr # NullPtr) =>
        /\ \A i \in 0 .. lastAlloc.bytes - 1 : ByteAt(lastAlloc.fill, i) = 0
        /\ lastAlloc.fn = "calloc" => lastAlloc.bytes = lastAlloc.count * lastAlloc.size

(* ---------------------------------------------------------------- *)
(* PCI.                                                              *)
(* ---------------------------------------------------------------- *)
\* C15: a pci_write of byte_width bytes at offset that returned Ok changed
\* exactly the bytes offset .. offset + byte_width - 1 of the register, to the
\* value's bytes, and left every other byte as it was (width 1 at offset 1
\* leaves bytes 0, 2 and 3); a pci_read that returned Ok stored exactly the
\* targeted bytes in the output location; and the capability was given the
\* address, offset, width and value the engine passed.
C15_PciNarrowAccess ==
    (lastPci.fn # "none" /\ lastPci.status = "Ok") =>
        /\ lastPci.seen = [address |-> PciDevice, offset |-> lastPci.offset,
                           byte_width |-> lastPci.byte_width, val |-> lastPci.val]
        /\ lastPci.fn = "pci_write" =>
              \A o \in PciOffsets :
                  pci_space[o] =
                      IF o >= lastPci.offset /\ o < lastPci.offset + lastPci.byte_width
                      THEN ByteOf(lastPci.val, o - lastPci.offset)
                      ELSE lastPci.before[o]
        /\ lastPci.fn = "pci_read" =>
              /\ pci_space = lastPci.before
              /\ mem["p1"] = BytesValue(lastPci.before, lastPci.offset, lastPci.byte_width)

\* Byte 1 of the register was written with 0x5A: bytes 0, 2 and 3 are as before.
C15_Witness ==
    /\ lastPci.fn = "pci_write"
    /\ lastPci.status = "Ok"
    /\ lastPci.offset = 1
    /\ lastPci.byte_width = 1
    /\ lastPci.val = 90
    /\ pci_space = [o \in PciOffsets |-> IF o = 1 THEN 90 ELSE 17 * (o + 1)]

(* ---------------------------------------------------------------- *)
(* Firmware requests.                                                *)
(* ---------------------------------------------------------------- *)
\* C16: with a capability registered, a raw firmware request with the
\* breakpoint tag reaches firmware_request as Breakpoint carrying the raw
\* context handle, one with the fatal tag as Fatal carrying the raw type, code
\* and argument, and one with any other tag panics (the process is aborted)
\* without firmware_request being called.
C16_FirmwareRequestDecoded ==
    (lastCall.fn = "handle_firmware_request" /\ lastCall.registry # None) =>
        CASE lastInput.type_ = UACPI_FIRMWARE_REQUEST_TYPE_BREAKPOINT ->
                /\ lastCall.dispatched # None
                /\ lastCall.arg = [variant |-> "Breakpoint", context |-> lastInput.ctx]
          [] lastInput.type_ = UACPI_FIRMWARE_REQUEST_TYPE_FATAL ->
                /\ lastCall.dispatched # None
                /\ lastCall.arg = [variant |-> "Fatal", typ |-> lastInput.ftype,
                                   code |-> lastInput.code, arg |-> lastInput.arg]
          [] OTHER ->
                /\ lastCall.panicked
                /\ process = "aborted"
                /\ lastCall.dispatched = None
                /\ lastCall.res = NotCalled

\* A fatal request was decoded and handed to firmware_request, which returned Ok.
C16_Witness ==
    /\ lastCall.fn = "handle_firmware_request"
    /\ lastInput.type_ = UACPI_FIRMWARE_REQUEST_TYPE_FATAL
    /\ lastCall.arg = [variant |-> "Fatal", typ |-> 1, code |-> 2, arg |-> 3]
    /\ lastCall.res = CapOk(0)
    /\ ret = "Ok"

(* ---------------------------------------------------------------- *)
(* Handle.                                                           *)
(* ---------------------------------------------------------------- *)
\* C17: Handle::new(0) panics; for every nonzero u64 v, Handle::new(v).as_u64()
\* is v; Handle::invalid().as_u64() is 0; so no handle Handle::new returns
\* equals the invalid handle.
C17_HandleRoundTrip ==
    /\ (handle_kind = "new" /\ handle_in = 0 /\ handle_pc # "start") => handle_pc = "aborted"
    /\ (handle_kind = "new" /\ handle_in # 0 /\ handle_pc # "start") => handle_pc # "aborted"
    /\ (handle_kind = "new" /\ handle_pc = "read") => handle_out = handle_in
    /\ (handle_kind = "invalid" /\ handle_pc = "read") => handle_out = 0
    /\ (handle_kind = "new" /\ handle_pc \in {"made", "read"}) => handle_obj # HandleInvalid

(* ---------------------------------------------------------------- *)
(* The checked libc shims.                                           *)
(* ---------------------------------------------------------------- *)
\* C18: __memcpy_chk panics exactly when the copy length exceeds the
\* destination size, and otherwise writes exactly the first len bytes of src
\* to dst and returns dst; __snprintf_chk panics exactly when the most it is
\* asked to write exceeds the size of the destination buffer, and otherwise
\* writes no more than the destination holds.
C18_CheckedCopiesAbortOnOverflow ==
    /\ lastLibc.fn = "__memcpy_chk" =>
          /\ lastLibc.panicked <=> lastLibc.len > lastLibc.dest_len
          /\ ~lastLibc.panicked =>
                (lastLibc.written = SubSeq(lastLibc.src, 1, lastLibc.len)
                    /\ lastLibc.ret_ptr = "dst")
    /\ lastLibc.fn = "__snprintf_chk" =>
          /\ lastLibc.panicked <=> lastLibc.max_len > lastLibc.dest_len
          /\ ~lastLibc.panicked => Len(lastLibc.written) <= lastLibc.dest_len

(* ---------------------------------------------------------------- *)
(* Freeing.                                                          *)
(* ---------------------------------------------------------------- *)
\* C19: a call of uacpi_kernel_free with a null pointer, whatever the size,
\* returns without a call of the capability's dealloc and leaves every block of
\* the allocator as it was; a call with a non-null pointer makes the one call
\* of dealloc, with that pointer and a layout of the given size, after which
\* that block is the allocator's again.
C19_FreeNullIsNoOp ==
    [][(/\ lastCall'.fn = "free"
        /\ <<lastCall', lastInput', alloc_blocks'>> # <<lastCall, lastInput, alloc_blocks>>)
       => IF lastInput'.ptr = NullPtr
          THEN /\ lastCall'.dispatched = None
               /\ lastCall'.res = NotCalled
               /\ ~lastCall'.panicked
               /\ process' = "running"
               /\ alloc_blocks' = alloc_blocks
          ELSE /\ lastCall'.dispatched = KERNEL_API
               /\ KERNEL_API # None
               /\ lastCall'.arg = [ptr |-> lastInput'.ptr,
                                   layout |-> [size |-> lastInput'.size, align |-> 8]]
               /\ alloc_blocks' = [alloc_blocks EXCEPT ![lastInput'.ptr] = NoBlock]]_vars

\* A null pointer was freed while a block was live, and the block still is.
C19_Witness ==
    /\ lastCall.fn = "free"
    /\ lastInput.ptr = NullPtr
    /\ lastInput.size > ISIZE_MAX - 7
    /\ \E p \in BlockPtrs : alloc_blocks[p].live

(* ---------------------------------------------------------------- *)
(* The fallible typed wrappers.                                      *)
(* ---------------------------------------------------------------- *)
\* C20: a fallible typed wrapper returns Ok exactly when the engine returned
\* UACPI_STATUS_OK, and otherwise Err with the Status whose number is the
\* status the engine returned; the value inside an Ok of a wrapper with an
\* output is the output the engine produced, never what the slot held
\* otherwise.
C20_WrapperResultFollowsEngine ==
    lastWrap.fn # "none" =>
        /\ lastWrap.ok <=> lastWrap.code = UACPI_STATUS_OK
        /\ ~lastWrap.ok =>
              /\ lastWrap.err # None
              /\ StatusAsU32(lastWrap.err) = lastWrap.code
              /\ lastWrap.val = NoValue
        /\ lastWrap.ok =>
              /\ lastWrap.err = None
              /\ lastWrap.val = lastWrap.produced

\* The engine failed with a half-written slot and the wrapper returned the Err.
C20_Witness ==
    /\ lastWrap.fn = "table_find_by_signature"
    /\ lastWrap.code = UACPI_STATUS_NOT_FOUND
    /\ lastWrap.slot = Garbage
    /\ ~lastWrap.ok
    /\ lastWrap.err = "NotFound"

(* ---------------------------------------------------------------- *)
(* Namespace iteration.                                              *)
(* ---------------------------------------------------------------- *)
\* C21: every call of the visitor during find_devices / find_devices_at is
\* for a node n the engine passed to the callback, with a NamespaceNode whose
\* pointer is n; the engine gets the decision the visitor returned, as its
\* number; and no call of the visitor follows a Break.
C21_VisitorSeesEachNode ==
    \A i \in 1 .. Len(find_log) :
        /\ find_log[i].seen = find_log[i].node
        /\ find_log[i].handed = DecisionAsEngine(find_log[i].decision)
        /\ find_log[i].decision = "Break" => i = Len(find_log)

(* ---------------------------------------------------------------- *)
(* Identifier lists.                                                 *)
(* ---------------------------------------------------------------- *)
\* C22: the array device_matches_pnp_id and find_devices_at give the engine
\* holds the pointers of the caller's identifiers in the caller's order and
\* then one null pointer, so one element more than the list has, the empty
\* list included; and its buffer is allocated from the moment the engine is
\* called until the engine returns.
C22_IdArrayNullTerminated ==
    /\ pnp_pc \in {"in_engine", "returned"} =>
          /\ Len(pnp_seen.array) = Len(pnp_list) + 1
          /\ \A i \in 1 .. Len(pnp_list) :
                pnp_seen.array[i] = StrAsPtr(pnp_list[i]) /\ pnp_seen.array[i] # NullPtr
          /\ pnp_seen.array[Len(pnp_list) + 1] = NullPtr
          /\ pnp_seen.live
    /\ pnp_pc = "in_engine" => (pnp_live /\ pnp_vec = pnp_seen.array)

\* The engine is inside a call that was given the array of an empty list.
C22_Witness ==
    /\ pnp_pc = "in_engine"
    /\ pnp_list = <<>>
    /\ pnp_seen.array = <<NullPtr>>

(* ---------------------------------------------------------------- *)
(* The registry read from concurrent call paths.                     *)
(* ---------------------------------------------------------------- *)
\* C23: once a set_kernel_api has completed, the registry holds the capability
\* it registered from then on, and every get_kernel_api of every call path
\* returns that capability: none finds the registry empty or half written.
C23_ReadersSeeTheRegisteredCapability ==
    setCalls > 0 =>
        /\ KERNEL_API = firstApi
        /\ \A t \in Threads : conc_pc[t] = "got" => conc_got[t] = firstApi

(* ---------------------------------------------------------------- *)
(* Success status and the output location.                           *)
(* ---------------------------------------------------------------- *)
\* C24: a trampoline with an output pointer that returns Status::Ok has
\* assigned the output location during that call, whatever result the
\* capability returned, an Err carrying Status::Ok included.
C24_OkImpliesOutputWritten ==
    (/\ lastCall.fn \in OutFns
     /\ lastCall.res # NotCalled
     /\ ~lastCall.panicked
     /\ ret = "Ok")
        => lastCall.assigned

(* ---------------------------------------------------------------- *)
(* The bounded C string shims.                                       *)
(* ---------------------------------------------------------------- *)
\* The index of the first zero byte of s among its first n bytes, or n.
RECURSIVE FirstZero(_, _, _)
FirstZero(s, n, i) == IF i >= n \/ s[i] = 0 THEN i ELSE FirstZero(s, n, i + 1)

\* The strings agree byte by byte on their first n bytes, or up to and
\* including a zero byte both have at the same index.
StringsAgree(s1, s2, n) ==
    LET z == FirstZero(s1, n, 0) IN
    \A i \in 0 .. (IF z < n THEN z ELSE n - 1) : s1[i] = s2[i]

\* C25: strnlen(s, max_len) returns the index of the first zero byte among the
\* first max_len bytes of s, or max_len, and reads no byte at index max_len or
\* beyond; strncmp(s1, s2, n) reads no byte at index n or beyond, and returns
\* 0 exactly when the strings agree on their first n bytes or up to and
\* including a common terminator.
C25_BoundedStringReads ==
    /\ lastStr.fn = "strnlen" =>
          /\ lastStr.ret = FirstZero(lastStr.s1, lastStr.n, 0)
          /\ lastStr.reads <= lastStr.n
    /\ lastStr.fn = "strncmp" =>
          /\ lastStr.reads <= lastStr.n
          /\ lastStr.ret = 0 <=> StringsAgree(lastStr.s1, lastStr.s2, lastStr.n)
====
